---- MODULE Spec2Model ----
(***************************************************************************)
(* AgentLedger integrity core: canonical hashing, hash chain, Merkle tree, *)
(* summary signature and the three storage backends (InMemoryStorage,      *)
(* FileSystemStorage, S3Storage) of packages/core/src/storage.ts and       *)
(* packages/core/src/crypto.ts.                                            *)
(*                                                                         *)
(* Representation.  A JavaScript object is a sequence of <<key, value>>    *)
(* pairs in insertion order; the value UNDEFINED stands for `undefined`.   *)
(* A string produced by sha256 is the term <<"sha256", preimage>> (the     *)
(* hash is collision free), the empty string is <<>>.  A signature is the  *)
(* term <<"sig", data, key>>.  Arrays that the program shares by reference *)
(* live in `heap`, and a reference is an index into it.                    *)
(***************************************************************************)
EXTENDS Integers, Sequences, FiniteSets, TLC

VARIABLES
    kind,           \* which StorageBackend implementation this instance is
    session,        \* this.session
    heap,           \* arrays shared by reference: index -> ChainedEntry[]
    entries,        \* this.entries (InMemoryStorage, S3Storage): a heap reference
    logPath,        \* FileSystemStorage.logPath (0 = undefined)
    entryCount,     \* FileSystemStorage.entryCount
    lastHash,       \* FileSystemStorage.lastHash
    files,          \* the file system: path -> lines of audit.jsonl
    finals,         \* the file system: path -> content of audit.final.json
    pendingWrites,  \* S3Storage.pendingWrites
    flushInterval,  \* S3Storage.flushInterval (0 = null)
    timers,         \* the active setInterval timers of the event loop
    nextTimer,      \* the id the next setInterval call returns
    inflight,       \* PUT requests issued by putObject and not yet answered
    objects,        \* the object store: set of [key, body]
    pc,             \* position of the one asynchronous call the caller awaits
    frame,          \* locals of that call (close: its keys; export or close)
    clock,          \* the wall clock read by timestamp()
    logs,           \* the AuditLog objects close() has returned to the caller
    finalizations,  \* history: every finalization performed, and by which call
    lastCall,       \* history: the last call that returned, and how
    returned,       \* history: the ChainedEntry returned by the last append
    appendCalls,    \* history: appends returned since the last initialize
    returnedAll,    \* history: the entries they returned, in the order of return
    overlapped,     \* appends issued while another call was suspended, and suspended
    calls,          \* history: calls the caller has made
    sessionOpen,    \* history: initialize has returned and no close since
    doc,            \* a finalized log document in the hands of a modifier
    orig,           \* the document as close() produced it
    tamperSteps,    \* history: modifications applied to doc
    fn,             \* the function of crypto.ts a caller applies by itself
    args,           \* its arguments
    result,         \* the value it returned
    initialized,    \* Ledger.initialized
    Ledger_entryCount,  \* Ledger.entryCount
    snapshotInterval,   \* Ledger.config.snapshotInterval (0 = undefined)
    signingKeys,    \* Ledger.signingKeys: <<privateKey, publicKey>> (0 = undefined)
    ledgerPc,       \* position of the one Ledger call its caller awaits
    ledgerFrame,    \* locals of that call
    ledgerLastCall  \* history: the last Ledger call that settled, and how

vars == <<kind, session, heap, entries, logPath, entryCount, lastHash, files,
          finals, pendingWrites, flushInterval, timers, nextTimer, inflight,
          objects, pc, frame, clock, logs, finalizations, lastCall, returned,
          appendCalls, returnedAll, overlapped, calls, sessionOpen, doc, orig,
          tamperSteps, fn, args, result, initialized, Ledger_entryCount,
          snapshotInterval, signingKeys, ledgerPc, ledgerFrame, ledgerLastCall>>

memVars == <<entries>>
fsVars  == <<logPath, entryCount, lastHash, files, finals>>
s3Vars  == <<pendingWrites, flushInterval, timers, nextTimer, inflight, objects, pc, frame>>
docVars == <<doc, orig, tamperSteps>>
callVars == <<fn, args, result>>
ledgerVars == <<initialized, Ledger_entryCount, snapshotInterval, signingKeys, ledgerPc,
                ledgerFrame, ledgerLastCall>>

----------------------------------------------------------------------------
(* Bounds of the model *)

MaxCalls  == 4      \* calls the caller makes on the backend
MaxClock  == 2      \* distinct clock readings
MaxTamper == 1      \* modifications applied to a document
BatchSize == 2      \* S3Storage flushes at 100 buffered entries; scaled down
MaxOverlap == 2     \* appends issued while an earlier append is suspended
MaxChain  == 3      \* entries of a list handed to verifyChain
MaxLeaves == 5      \* leaf hashes handed to buildMerkleTree
MaxIndex  == 3      \* start and end of getRange lie in -MaxIndex..MaxIndex

Sessions == 1..2    \* session ids the caller passes to initialize
KeyIds   == 1..2    \* signing key pairs; key pair k is (private k, public k)

UNDEFINED == -1     \* the JavaScript value `undefined`
EMPTY     == <<>>   \* the empty string ''

----------------------------------------------------------------------------
(* Canonical Hasher: crypto.ts *)

\* Property names in lexicographic order (the order Array.prototype.sort gives).
KeyNames == <<"cost_usd", "entry_id", "type">>

KeyRank(k) == CHOOSE i \in 1..Len(KeyNames) : KeyNames[i] = k

\* AuditEntry payloads.  E1 and E1r differ only in the order of insertion of
\* their keys; E1u carries an undefined optional field, as the entries the
\* Ledger builds do (index.ts:349-357).
E1  == << <<"type", 1>>, <<"entry_id", 1>> >>
E1r == << <<"entry_id", 1>>, <<"type", 1>> >>
E1u == << <<"type", 1>>, <<"entry_id", 1>>, <<"cost_usd", UNDEFINED>> >>
E2  == << <<"type", 1>>, <<"entry_id", 2>> >>

\* The payloads the caller appends.
AuditEntries == {E1u, E2}

sha256(data) == <<"sha256", data>>

RECURSIVE InsertSorted(_, _)
InsertSorted(kv, s) ==
    IF s = <<>> THEN <<kv>>
    ELSE IF KeyRank(kv[1]) <= KeyRank(Head(s)[1]) THEN <<kv>> \o s
    ELSE <<Head(s)>> \o InsertSorted(kv, Tail(s))

RECURSIVE SortKeys(_)
SortKeys(obj) ==
    IF obj = <<>> THEN <<>> ELSE InsertSorted(Head(obj), SortKeys(Tail(obj)))

\* sortedReplacer: the object rebuilt with its keys in sorted order.
sortedReplacer(obj) == SortKeys(obj)

\* JSON.stringify of an object: properties in insertion order, the ones whose
\* value is undefined left out.  JSON.parse of the text gives the same pairs.
JSONstringify(obj) == SelectSeq(obj, LAMBDA kv : kv[2] # UNDEFINED)

\* Variant: the sequence number is left out of the hashed text.
hashObject_withoutSequence(sequence, entry, previous_hash) ==
    sha256(<<JSONstringify(sortedReplacer(entry)), previous_hash, 0>>)

\* hashObject applied to {sequence, entry, previous_hash}: the keys of the
\* wrapper sort as entry, previous_hash, sequence.
hashObject(sequence, entry, previous_hash) ==
    sha256(<<JSONstringify(sortedReplacer(entry)), previous_hash, sequence>>)

\* Values of any shape: a number, an object (its properties as pairs in
\* insertion order) or an array, each under a tag that tells them apart.
Num(n) == <<"num", n>>
Obj(pairs) == <<"obj", pairs>>
Arr(elems) == <<"arr", elems>>

\* Variant: only the keys of the outermost object are sorted.
stringifySorted_topLevelOnly(value) ==
    IF value[1] = "obj" THEN Obj(SortKeys(value[2])) ELSE value

\* JSON.stringify(obj, sortedReplacer()): the replacer is called for the
\* value and then for every property and array element of what it returned;
\* it returns an object rebuilt with sorted keys and anything else as it is.
RECURSIVE stringifySorted(_)
stringifySorted(value) ==
    CASE value[1] = "num" -> value
      [] value[1] = "arr" ->
            Arr([i \in 1..Len(value[2]) |-> stringifySorted(value[2][i])])
      [] value[1] = "obj" ->
            LET sorted == SortKeys(value[2])
            IN  Obj([i \in 1..Len(sorted) |->
                        <<sorted[i][1], stringifySorted(sorted[i][2])>>])

\* hashObject(obj) for a value of any shape.
hashValue(value) == sha256(stringifySorted(value))

----------------------------------------------------------------------------
(* Hash Chain Engine: crypto.ts *)

\* Variant: the hash leaves out the link to the previous entry.
createChainedEntry_unlinkedHash(entry, sequence, previousHash) ==
    [sequence |-> sequence, entry |-> entry, previous_hash |-> previousHash,
     entry_hash |-> hashObject(sequence, entry, EMPTY)]

\* Variant: sequence numbers start at 1.
createChainedEntry_fromOne(entry, sequence, previousHash) ==
    [sequence |-> sequence + 1, entry |-> entry, previous_hash |-> previousHash,
     entry_hash |-> hashObject(sequence + 1, entry, previousHash)]

createChainedEntry(entry, sequence, previousHash) ==
    [sequence |-> sequence, entry |-> entry, previous_hash |-> previousHash,
     entry_hash |-> hashObject(sequence, entry, previousHash)]

\* JSON.parse(JSON.stringify(chained)): what a ChainedEntry is after a trip
\* through a file line or an object body.
ChainedJSON(e) == [e EXCEPT !.entry = JSONstringify(e.entry)]

NoEntry == [sequence |-> -1, entry |-> <<>>, previous_hash |-> EMPTY, entry_hash |-> EMPTY]

\* Variant: the expected sequence is the previous one, not its successor.
verifyChainLink_sameSequence(current, hasPrev, previous) ==
    LET expectedSequence == IF hasPrev THEN previous.sequence ELSE 0
        expectedPreviousHash == IF hasPrev THEN previous.entry_hash ELSE EMPTY
        recomputed == hashObject(current.sequence, current.entry, current.previous_hash)
    IN  IF current.sequence # expectedSequence
          THEN [valid |-> FALSE, error |-> <<"Sequence mismatch", expectedSequence, current.sequence>>]
        ELSE IF current.previous_hash # expectedPreviousHash
          THEN [valid |-> FALSE, error |-> <<"Previous hash mismatch", current.sequence>>]
        ELSE IF current.entry_hash # recomputed
          THEN [valid |-> FALSE, error |-> <<"Entry hash mismatch", current.sequence>>]
        ELSE [valid |-> TRUE, error |-> <<>>]

\* Variant: the previous hash is recomputed from the previous entry instead
\* of read from its entry_hash field.
verifyChainLink_livePrevious(current, hasPrev, previous) ==
    LET expectedSequence == IF hasPrev THEN previous.sequence + 1 ELSE 0
        expectedPreviousHash ==
            IF hasPrev
            THEN hashObject(previous.sequence, previous.entry, previous.previous_hash)
            ELSE EMPTY
        recomputed == hashObject(current.sequence, current.entry, current.previous_hash)
    IN  IF current.sequence # expectedSequence
          THEN [valid |-> FALSE, error |-> <<"Sequence mismatch", expectedSequence, current.sequence>>]
        ELSE IF current.previous_hash # expectedPreviousHash
          THEN [valid |-> FALSE, error |-> <<"Previous hash mismatch", current.sequence>>]
        ELSE IF current.entry_hash # recomputed
          THEN [valid |-> FALSE, error |-> <<"Entry hash mismatch", current.sequence>>]
        ELSE [valid |-> TRUE, error |-> <<>>]

\* Variant: the previous hash is compared before the sequence.
verifyChainLink_hashBeforeSequence(current, hasPrev, previous) ==
    LET expectedSequence == IF hasPrev THEN previous.sequence + 1 ELSE 0
        expectedPreviousHash == IF hasPrev THEN previous.entry_hash ELSE EMPTY
        recomputed == hashObject(current.sequence, current.entry, current.previous_hash)
    IN  IF current.previous_hash # expectedPreviousHash
          THEN [valid |-> FALSE, error |-> <<"Previous hash mismatch", current.sequence>>]
        ELSE IF current.sequence # expectedSequence
          THEN [valid |-> FALSE,
                error |-> <<"Sequence mismatch", expectedSequence, current.sequence>>]
        ELSE IF current.entry_hash # recomputed
          THEN [valid |-> FALSE, error |-> <<"Entry hash mismatch", current.sequence>>]
        ELSE [valid |-> TRUE, error |-> <<>>]

\* verifyChainLink; hasPrev = FALSE is the call with previous = null.  The
\* result is the error kind and the sequence it is reported for.
verifyChainLink(current, hasPrev, previous) ==
    LET expectedSequence == IF hasPrev THEN previous.sequence + 1 ELSE 0
        expectedPreviousHash == IF hasPrev THEN previous.entry_hash ELSE EMPTY
        recomputed == hashObject(current.sequence, current.entry, current.previous_hash)
    IN  IF current.sequence # expectedSequence
          THEN [valid |-> FALSE, error |-> <<"Sequence mismatch", expectedSequence, current.sequence>>]
        ELSE IF current.previous_hash # expectedPreviousHash
          THEN [valid |-> FALSE, error |-> <<"Previous hash mismatch", current.sequence>>]
        ELSE IF current.entry_hash # recomputed
          THEN [valid |-> FALSE, error |-> <<"Entry hash mismatch", current.sequence>>]
        ELSE [valid |-> TRUE, error |-> <<>>]

LinkAt(es, i) == verifyChainLink(es[i], i > 1, IF i > 1 THEN es[i - 1] ELSE NoEntry)

RECURSIVE ChainErrors(_, _)
ChainErrors(es, i) ==
    IF i > Len(es) THEN <<>>
    ELSE (IF LinkAt(es, i).valid THEN <<>> ELSE <<LinkAt(es, i).error>>)
         \o ChainErrors(es, i + 1)

\* Variant: the scan stops at the first invalid link.
verifyChain_stopsAtFirst(es) ==
    LET all == ChainErrors(es, 1)
        errors == IF all = <<>> THEN <<>> ELSE <<Head(all)>>
    IN  [valid |-> errors = <<>>, errors |-> errors, verified_count |-> Len(es)]

verifyChain(es) ==
    LET errors == ChainErrors(es, 1)
    IN  [valid |-> errors = <<>>, errors |-> errors, verified_count |-> Len(es)]

----------------------------------------------------------------------------
(* Merkle Engine: crypto.ts *)

IsPowerOfTwo(n) == n \in {1, 2, 4, 8, 16}

\* Variant: the list is padded with copies of its first hash.
RECURSIVE PadToPowerOfTwo_firstHash(_)
PadToPowerOfTwo_firstHash(hs) ==
    IF IsPowerOfTwo(Len(hs)) THEN hs ELSE PadToPowerOfTwo_firstHash(Append(hs, hs[1]))

RECURSIVE PadToPowerOfTwo(_)
PadToPowerOfTwo(hs) ==
    IF IsPowerOfTwo(Len(hs)) THEN hs ELSE PadToPowerOfTwo(Append(hs, hs[Len(hs)]))

NextLevel(level) ==
    [i \in 1..(Len(level) \div 2) |-> sha256(<<level[2 * i - 1], level[2 * i]>>)]

RECURSIVE MerkleLevels(_)
MerkleLevels(level) ==
    IF Len(level) <= 1 THEN <<level>> ELSE <<level>> \o MerkleLevels(NextLevel(level))

\* The padding loop pushes `lastHash` only `if (lastHash)`: with a list whose
\* length is no power of two and whose last element is the empty string it
\* pushes nothing and never ends.
PaddingLoops(hashes) == ~IsPowerOfTwo(Len(hashes)) /\ hashes[Len(hashes)] = EMPTY

\* Stands for a call that does not return.
DoesNotReturn == [root |-> <<"does not return">>, tree |-> <<>>]

\* Variant: the empty list is hashed like any other value.
buildMerkleTree_emptyHashed(hashes) ==
    IF hashes = <<>> THEN [root |-> sha256(EMPTY), tree |-> << <<sha256(EMPTY)>> >>]
    ELSE IF PaddingLoops(hashes) THEN DoesNotReturn
    ELSE LET tree == MerkleLevels(PadToPowerOfTwo(hashes))
         IN  [root |-> tree[Len(tree)][1], tree |-> tree]

buildMerkleTree(hashes) ==
    IF hashes = <<>> THEN [root |-> EMPTY, tree |-> <<>>]
    ELSE IF PaddingLoops(hashes) THEN DoesNotReturn
    ELSE LET tree == MerkleLevels(PadToPowerOfTwo(hashes))
         IN  [root |-> tree[Len(tree)][1], tree |-> tree]

\* Variant: the root is computed over the previous hashes of the entries.
EntryHashes_previousHashes(es) == [i \in 1..Len(es) |-> es[i].previous_hash]

\* entries.map(e => e.entry_hash)
EntryHashes(es) == [i \in 1..Len(es) |-> es[i].entry_hash]

\* Variant: a proof step records the side of the node, not of its sibling.
ProofStep_sideOfNode(currentLevelArr, currentIndex) ==
    LET isLeft == currentIndex % 2 = 0
        siblingIndex == IF isLeft THEN currentIndex + 1 ELSE currentIndex - 1
    IN  IF siblingIndex < Len(currentLevelArr)
        THEN <<[hash |-> currentLevelArr[siblingIndex + 1],
                position |-> IF isLeft THEN "left" ELSE "right"]>>
        ELSE <<>>

\* One turn of the loop of getMerkleProof: the step pushed for the node at
\* currentIndex (counted from 0) of a level, none if it has no sibling.
ProofStep(currentLevelArr, currentIndex) ==
    LET isLeft == currentIndex % 2 = 0
        siblingIndex == IF isLeft THEN currentIndex + 1 ELSE currentIndex - 1
    IN  IF siblingIndex < Len(currentLevelArr)
        THEN <<[hash |-> currentLevelArr[siblingIndex + 1],
                position |-> IF isLeft THEN "right" ELSE "left"]>>
        ELSE <<>>

RECURSIVE ProofFrom(_, _, _)
ProofFrom(tree, level, currentIndex) ==
    IF level > Len(tree) - 1 THEN <<>>
    ELSE ProofStep(tree[level], currentIndex)
         \o ProofFrom(tree, level + 1, currentIndex \div 2)

\* index counts from 0, as in the source.
getMerkleProof(tree, index) == ProofFrom(tree, 1, index)

RECURSIVE FoldProof(_, _)
FoldProof(currentHash, proof) ==
    IF proof = <<>> THEN currentHash
    ELSE FoldProof(IF Head(proof).position = "left"
                   THEN sha256(<<Head(proof).hash, currentHash>>)
                   ELSE sha256(<<currentHash, Head(proof).hash>>),
                   Tail(proof))

verifyMerkleProof(leafHash, proof, root) == FoldProof(leafHash, proof) = root

----------------------------------------------------------------------------
(* Signature Service: crypto.ts *)

\* The Ed25519 signature of the bytes of data under key pair k: cryptoSign
\* with the private key gives it, and cryptoVerify with the public key
\* accepts it and nothing else.
cryptoSign(data, privateKey) == <<"sig", data, privateKey>>
cryptoVerify(data, publicKey, signatureBytes) == signatureBytes = <<"sig", data, publicKey>>

\* signature.toString('base64'): the canonical text of the bytes.
toBase64(bytes) == <<"base64", bytes>>

\* The same text with a character added that is not of the base64 alphabet
\* (a space, a line feed).
WithSkippedCharacter(text) == Append(text, " ")

\* Buffer.from(text, 'base64') skips the characters that are not of the
\* alphabet and decodes the rest.
fromBase64(text) == text[2]

\* A key string createPrivateKey or createPublicKey accepts.
IsKey(k) == k \in KeyIds

sign(data, privateKey) == toBase64(cryptoSign(data, privateKey))

\* createPublicKey throws for a string that is no key; the catch returns
\* false.
verify(data, signature, publicKey) ==
    IF ~IsKey(publicKey) THEN FALSE
    ELSE cryptoVerify(data, publicKey, fromBase64(signature))

NoSignature == [present |-> FALSE, public_key |-> 0, signature |-> toBase64(EMPTY), signed_at |-> 0]

\* Variant: the signed summary leaves out the Merkle root.
dataToSign_withoutRoot(sess, merkle_root, entry_count) ==
    <<sess.session_id, EMPTY, entry_count, sess.closed_at>>

\* Variant: the signed summary leaves out the number of entries.
dataToSign_withoutCount(sess, merkle_root, entry_count) ==
    <<sess.session_id, merkle_root, 0, sess.closed_at>>

\* The summary both signAuditLog and verifyAuditLogSignature serialize.
dataToSign(sess, merkle_root, entry_count) ==
    <<sess.session_id, merkle_root, entry_count, sess.closed_at>>

signAuditLog(sess, es, merkle_root, privateKey, publicKey, now) ==
    [present |-> TRUE, public_key |-> publicKey,
     signature |-> sign(dataToSign(sess, merkle_root, Len(es)), privateKey),
     signed_at |-> now]

verifyAuditLogSignature(sess, es, merkle_root, org_signature) ==
    IF ~org_signature.present THEN FALSE
    ELSE verify(dataToSign(sess, merkle_root, Len(es)),
                org_signature.signature, org_signature.public_key)

----------------------------------------------------------------------------
(* Storage backends: storage.ts.  State shared by the three classes. *)

Kinds == {"InMemoryStorage", "FileSystemStorage", "S3Storage"}

\* A SessionEnvelope: its id, closed_at (0 = undefined), and under metadata
\* what the caller put into the fields no storage code reads or writes.
SessionEnvelope(id) == [session_id |-> id, metadata |-> id, closed_at |-> 0]

NoSession == SessionEnvelope(0)     \* this.session before initialize

\* close(privateKey?, publicKey?): 0 is an argument left out.
KeyArgs == {<<0, 0>>, <<1, 0>>, <<0, 1>>, <<1, 1>>, <<1, 2>>}

timestamp == clock

Last(s) == s[Len(s)]

\* Variant: the session of the log is a new envelope made from the id.
BuildLog_sessionFromId(sess, ref, es, privateKey, publicKey) ==
    LET root == buildMerkleTree(EntryHashes(es)).root
        closedSession == [SessionEnvelope(sess.session_id) EXCEPT !.metadata = 0,
                                                                  !.closed_at = timestamp]
        org_signature ==
            IF privateKey # 0 /\ publicKey # 0
            THEN signAuditLog(closedSession, es, root, privateKey, publicKey, timestamp)
            ELSE NoSignature
        verification == verifyChain(es)
    IN  [version |-> "1.0.0",
         session |-> closedSession,
         entries |-> ref,
         merkle_root |-> root,
         org_signature |-> org_signature,
         integrity |-> [chain_valid |-> verification.valid,
                        merkle_valid |-> TRUE,
                        signature_valid |->
                            IF org_signature.present
                            THEN IF verifyAuditLogSignature(closedSession, es, root, org_signature)
                                 THEN "true" ELSE "false"
                            ELSE "undefined",
                        verified_at |-> timestamp]]

\* Variant: close signs as soon as one of the two keys is given.
BuildLog_signsWithOneKey(sess, ref, es, privateKey, publicKey) ==
    LET root == buildMerkleTree(EntryHashes(es)).root
        closedSession == [sess EXCEPT !.closed_at = timestamp]
        org_signature ==
            IF privateKey # 0 \/ publicKey # 0
            THEN signAuditLog(closedSession, es, root, privateKey, publicKey, timestamp)
            ELSE NoSignature
        verification == verifyChain(es)
    IN  [version |-> "1.0.0",
         session |-> closedSession,
         entries |-> ref,
         merkle_root |-> root,
         org_signature |-> org_signature,
         integrity |-> [chain_valid |-> verification.valid,
                        merkle_valid |-> TRUE,
                        signature_valid |->
                            IF org_signature.present
                            THEN IF verifyAuditLogSignature(closedSession, es, root, org_signature)
                                 THEN "true" ELSE "false"
                            ELSE "undefined",
                        verified_at |-> timestamp]]

\* The AuditLog object close() builds: lines 1354-1382, 1478-1505, 1621-1646.
\* ref is the array the log's entries field points to, es its content.
BuildLog(sess, ref, es, privateKey, publicKey) ==
    LET root == buildMerkleTree(EntryHashes(es)).root
        closedSession == [sess EXCEPT !.closed_at = timestamp]
        org_signature ==
            IF privateKey # 0 /\ publicKey # 0
            THEN signAuditLog(closedSession, es, root, privateKey, publicKey, timestamp)
            ELSE NoSignature
        verification == verifyChain(es)
    IN  [version |-> "1.0.0",
         session |-> closedSession,
         entries |-> ref,
         merkle_root |-> root,
         org_signature |-> org_signature,
         integrity |-> [chain_valid |-> verification.valid,
                        merkle_valid |-> TRUE,
                        signature_valid |->
                            IF org_signature.present
                            THEN IF verifyAuditLogSignature(closedSession, es, root, org_signature)
                                 THEN "true" ELSE "false"
                            ELSE "undefined",
                        verified_at |-> timestamp]]

\* JSON.stringify(log): the entries array written out in full.
LogJSON(log, es) == [log EXCEPT !.entries = [i \in 1..Len(es) |-> ChainedJSON(es[i])]]

\* The value of an AuditLog the caller holds, its entries array read through
\* the reference.
LogValue(log) == [log EXCEPT !.entries = heap[log.entries]]

\* History of a finalization: the call that made it, the session it closed,
\* and the entry hashes and the root of the log as it was built.
Finalized(by, log, es) ==
    [by |-> by, session_id |-> log.session.session_id, closed_at |-> log.session.closed_at,
     entry_hashes |-> [i \in 1..Len(es) |-> es[i].entry_hash],
     merkle_root |-> log.merkle_root]

\* `this.entries = []`: a new array.  The array this.entries pointed to stays
\* alive only if a returned AuditLog still points to it; otherwise it is
\* garbage and its slot is taken again.
EntriesShared == \E i \in 1..Len(logs) : logs[i].entries = entries
NewEntriesRef == IF EntriesShared THEN Len(heap) + 1 ELSE entries
\* Variant: initialize keeps the entries of the previous session.
HeapWithNewEntries_keepsEntries ==
    IF EntriesShared THEN Append(heap, heap[entries]) ELSE heap

HeapWithNewEntries ==
    IF EntriesShared THEN Append(heap, <<>>) ELSE [heap EXCEPT ![entries] = <<>>]

\* What the caller saw of its last call.  For initialize: the session it
\* passed, whether a session was open and what count() was when it called.
Returns(op) == [op |-> op, status |-> "ok", arg |-> NoSession, wasOpen |-> FALSE,
                countBefore |-> 0, hashBefore |-> EMPTY, keys |-> <<0, 0>>]
\* For close: the keys it passed.
ReturnsClose(privateKey, publicKey) ==
    [Returns("close") EXCEPT !.keys = <<privateKey, publicKey>>]
ReturnsInitialize(s, wasOpen, countBefore) ==
    [op |-> "initialize", status |-> "ok", arg |-> s, wasOpen |-> wasOpen,
     countBefore |-> countBefore, hashBefore |-> EMPTY, keys |-> <<0, 0>>]

\* The call threw (its promise was rejected) with an error of the given
\* class; count() and the last entry hash were as given when it was made.
Throws(op, error, countBefore, hashBefore) ==
    [op |-> op, status |-> error, arg |-> NoSession, wasOpen |-> FALSE,
     countBefore |-> countBefore, hashBefore |-> hashBefore, keys |-> <<0, 0>>]

\* The caller initializes the backend before it makes any other call, as
\* Ledger.start does (index.ts:190).
Initialized == session # NoSession

NoDocument == <<>>

NoArgs == <<>>
NoResult == <<>>

NoFrame == [op |-> "none", privateKey |-> 0, publicKey |-> 0, chained |-> NoEntry,
            log |-> <<>>, arg |-> NoSession, wasOpen |-> FALSE, countBefore |-> 0]

\* The state of a backend after its constructor.
Constructed ==
    /\ kind \in Kinds
    /\ session = NoSession
    /\ heap = << <<>> >>
    /\ entries = 1
    /\ logPath = 0
    /\ entryCount = 0
    /\ lastHash = EMPTY
    /\ files = [p \in Sessions |-> <<>>]
    /\ finals = [p \in Sessions |-> <<>>]
    /\ pendingWrites = <<>>
    /\ flushInterval = 0
    /\ timers = {}
    /\ nextTimer = 1
    /\ inflight = {}
    /\ objects = {}
    /\ pc = "idle"
    /\ frame = NoFrame
    /\ clock = 1
    /\ logs = <<>>
    /\ finalizations = <<>>
    /\ lastCall = Returns("constructor")
    /\ returned = NoEntry
    /\ appendCalls = 0
    /\ returnedAll = <<>>
    /\ overlapped = {}
    /\ calls = 0
    /\ sessionOpen = FALSE
    /\ doc = NoDocument
    /\ orig = NoDocument
    /\ tamperSteps = 0

NoLedgerFrame == [op |-> "none", chained |-> NoEntry, snapshots |-> 0]

\* What the caller of the Ledger saw of its last call: how it settled and,
\* for a call that returned an entry, the entry.  The six operations that
\* end in `return this.append(entry)` are recorded as "append" when they
\* return.
LedgerReturns(op, chained) == [op |-> op, status |-> "ok", chained |-> chained]
LedgerThrows(op, error) == [op |-> op, status |-> error, chained |-> NoEntry]

\* The state of a Ledger after its constructor (index.ts:147-156).
Ledger_constructor ==
    /\ initialized = FALSE
    /\ Ledger_entryCount = 0
    /\ ledgerPc = "idle"
    /\ ledgerFrame = NoLedgerFrame
    /\ ledgerLastCall = LedgerReturns("constructor", NoEntry)

\* A backend that is called directly has no Ledger in front of it.
NoLedger ==
    /\ Ledger_constructor
    /\ snapshotInterval = 0
    /\ signingKeys = <<0, 0>>

\* A step of a caller that calls the backend directly.
Direct == UNCHANGED ledgerVars

Init ==
    /\ Constructed
    /\ NoLedger
    /\ fn = "none"
    /\ args = NoArgs
    /\ result = NoResult

\* Time passes.  The clock is read only when a log is finalized, so it is
\* enough to let it advance after a finalization.
Tick ==
    /\ clock < MaxClock
    /\ pc = "idle"
    /\ lastCall.op \in {"close", "export"}
    /\ clock' = clock + 1
    /\ UNCHANGED <<kind, callVars, ledgerVars, overlapped, session, heap, memVars, fsVars, s3Vars, logs, finalizations,
                   lastCall, returned, appendCalls, returnedAll, calls, sessionOpen, docVars>>

----------------------------------------------------------------------------
(* InMemoryStorage: no await inside any method, each call is one step. *)

InMemoryStorage_initialize(s) ==
    /\ kind = "InMemoryStorage"
    /\ calls < MaxCalls
    /\ calls' = calls + 1
    /\ session' = s
    /\ heap' = HeapWithNewEntries
    /\ entries' = NewEntriesRef
    /\ lastCall' = ReturnsInitialize(s, sessionOpen, Len(heap[entries]))
    /\ sessionOpen' = TRUE
    /\ returned' = NoEntry
    /\ appendCalls' = 0
    /\ returnedAll' = <<>>
    /\ UNCHANGED <<kind, callVars, overlapped, fsVars, s3Vars, clock, logs, finalizations, docVars>>

InMemoryStorage_append(entry) ==
    /\ kind = "InMemoryStorage"
    /\ Initialized
    /\ calls < MaxCalls
    /\ calls' = calls + 1
    /\ LET es == heap[entries]
           previousHash == IF es # <<>> THEN Last(es).entry_hash ELSE EMPTY
           chained == createChainedEntry(entry, Len(es), previousHash)
       IN  /\ heap' = [heap EXCEPT ![entries] = Append(@, chained)]
           /\ returned' = chained
    /\ lastCall' = Returns("append")
    /\ appendCalls' = appendCalls + 1
    /\ returnedAll' = Append(returnedAll, returned')
    /\ UNCHANGED <<kind, callVars, overlapped, session, entries, fsVars, s3Vars, clock, logs, finalizations, sessionOpen, docVars>>

InMemoryStorage_close(privateKey, publicKey) ==
    /\ kind = "InMemoryStorage"
    /\ Initialized
    /\ calls < MaxCalls
    /\ calls' = calls + 1
    /\ LET log == BuildLog(session, entries, heap[entries], privateKey, publicKey)
       IN  /\ logs' = Append(logs, log)
           /\ finalizations' = Append(finalizations, Finalized("close", log, heap[entries]))
    /\ lastCall' = ReturnsClose(privateKey, publicKey)
    /\ sessionOpen' = FALSE
    /\ UNCHANGED <<kind, callVars, overlapped, session, heap, entries, fsVars, s3Vars, clock, returned,
                   appendCalls, returnedAll, docVars>>

\* export(options) is `await this.close()` followed by the format converter;
\* the log it builds goes to the converter and not to the caller.
InMemoryStorage_export ==
    /\ kind = "InMemoryStorage"
    /\ Initialized
    /\ calls < MaxCalls
    /\ calls' = calls + 1
    /\ LET log == BuildLog(session, entries, heap[entries], 0, 0)
       IN  finalizations' = Append(finalizations, Finalized("export", log, heap[entries]))
    /\ lastCall' = Returns("export")
    /\ sessionOpen' = FALSE
    /\ UNCHANGED <<kind, callVars, overlapped, session, heap, entries, fsVars, s3Vars, clock, logs, returned,
                   appendCalls, returnedAll, docVars>>

----------------------------------------------------------------------------
(* FileSystemStorage: synchronous fs calls, each method is one step. *)

HeaderLine(s) == [type |-> "session", data |-> s]
EntryLine(chained) == [type |-> "entry", data |-> ChainedJSON(chained)]

\* getAll: the data of the lines of this.logPath whose type is "entry".
FileSystemStorage_getAll ==
    LET lines == SelectSeq(files[logPath], LAMBDA l : l.type = "entry")
    IN  [i \in 1..Len(lines) |-> lines[i].data]

\* Variant: initialize appends the header to the file and keeps the cursor.
FileSystemStorage_initialize_keepsCursor(s) ==
    /\ kind = "FileSystemStorage"
    /\ calls < MaxCalls
    /\ calls' = calls + 1
    /\ session' = s
    /\ logPath' = s.session_id
    /\ files' = [files EXCEPT ![s.session_id] = Append(@, HeaderLine(s))]
    /\ lastCall' = ReturnsInitialize(s, sessionOpen, entryCount)
    /\ sessionOpen' = TRUE
    /\ returned' = NoEntry
    /\ appendCalls' = 0
    /\ returnedAll' = <<>>
    /\ UNCHANGED <<kind, callVars, overlapped, heap, memVars, entryCount, lastHash, finals, s3Vars, clock, logs,
                   finalizations, docVars>>

FileSystemStorage_initialize(s) ==
    /\ kind = "FileSystemStorage"
    /\ calls < MaxCalls
    /\ calls' = calls + 1
    /\ session' = s
    /\ entryCount' = 0
    /\ lastHash' = EMPTY
    /\ logPath' = s.session_id
    /\ files' = [files EXCEPT ![s.session_id] = <<HeaderLine(s)>>]
    /\ lastCall' = ReturnsInitialize(s, sessionOpen, entryCount)
    /\ sessionOpen' = TRUE
    /\ returned' = NoEntry
    /\ appendCalls' = 0
    /\ returnedAll' = <<>>
    /\ UNCHANGED <<kind, callVars, overlapped, heap, memVars, finals, s3Vars, clock, logs, finalizations,
                   docVars>>

\* Variant: append writes the line and counts it but keeps the last hash.
FileSystemStorage_append_keepsLastHash(entry) ==
    /\ kind = "FileSystemStorage"
    /\ Initialized
    /\ calls < MaxCalls
    /\ calls' = calls + 1
    /\ LET chained == createChainedEntry(entry, entryCount, lastHash)
       IN  /\ files' = [files EXCEPT ![logPath] = Append(@, EntryLine(chained))]
           /\ entryCount' = entryCount + 1
           /\ lastHash' = lastHash
           /\ returned' = chained
    /\ lastCall' = Returns("append")
    /\ appendCalls' = appendCalls + 1
    /\ returnedAll' = Append(returnedAll, returned')
    /\ UNCHANGED <<kind, callVars, overlapped, session, heap, memVars, logPath, finals, s3Vars, clock, logs,
                   finalizations, sessionOpen, docVars>>

FileSystemStorage_append(entry) ==
    /\ kind = "FileSystemStorage"
    /\ Initialized
    /\ calls < MaxCalls
    /\ calls' = calls + 1
    /\ LET chained == createChainedEntry(entry, entryCount, lastHash)
       IN  /\ files' = [files EXCEPT ![logPath] = Append(@, EntryLine(chained))]
           /\ entryCount' = entryCount + 1
           /\ lastHash' = chained.entry_hash
           /\ returned' = chained
    /\ lastCall' = Returns("append")
    /\ appendCalls' = appendCalls + 1
    /\ returnedAll' = Append(returnedAll, returned')
    /\ UNCHANGED <<kind, callVars, overlapped, session, heap, memVars, logPath, finals, s3Vars, clock, logs,
                   finalizations, sessionOpen, docVars>>

\* appendFileSync throws (the file is missing, not writable, ...) and has
\* written nothing: the statements after it do not run.
FileSystemStorage_append_throws(entry) ==
    /\ kind = "FileSystemStorage"
    /\ Initialized
    /\ calls < MaxCalls
    /\ calls' = calls + 1
    /\ lastCall' = Throws("append", "Error", entryCount, lastHash)
    /\ UNCHANGED <<kind, callVars, ledgerVars, overlapped, session, heap, memVars, fsVars, s3Vars, clock, logs,
                   finalizations, returned, appendCalls, returnedAll, sessionOpen, docVars>>

FileSystemStorage_close(privateKey, publicKey) ==
    /\ kind = "FileSystemStorage"
    /\ Initialized
    /\ calls < MaxCalls
    /\ calls' = calls + 1
    /\ LET es == FileSystemStorage_getAll
           ref == Len(heap) + 1
           log == BuildLog(session, ref, es, privateKey, publicKey)
       IN  /\ heap' = Append(heap, es)
           /\ finals' = [finals EXCEPT ![logPath] = <<LogJSON(log, es)>>]
           /\ logs' = Append(logs, log)
           /\ finalizations' = Append(finalizations, Finalized("close", log, es))
    /\ lastCall' = ReturnsClose(privateKey, publicKey)
    /\ sessionOpen' = FALSE
    /\ UNCHANGED <<kind, callVars, overlapped, session, memVars, logPath, entryCount, lastHash, files, s3Vars,
                   clock, returned, appendCalls, returnedAll, docVars>>

FileSystemStorage_export ==
    /\ kind = "FileSystemStorage"
    /\ Initialized
    /\ calls < MaxCalls
    /\ calls' = calls + 1
    /\ LET es == FileSystemStorage_getAll
           log == BuildLog(session, 0, es, 0, 0)
       IN  /\ finals' = [finals EXCEPT ![logPath] = <<LogJSON(log, es)>>]
           /\ finalizations' = Append(finalizations, Finalized("export", log, es))
    /\ lastCall' = Returns("export")
    /\ sessionOpen' = FALSE
    /\ UNCHANGED <<kind, callVars, overlapped, session, heap, memVars, logPath, entryCount, lastHash, files,
                   s3Vars, clock, logs, returned, appendCalls, returnedAll, docVars>>

----------------------------------------------------------------------------
(* S3Storage.  putObject awaits a PUT request; the call that awaits it is  *)
(* suspended at `pc` until the request is answered, and the callback of    *)
(* the interval timer runs between any two steps.                          *)

PutRequest(key, body, awaited) == [key |-> key, body |-> body, awaited |-> awaited]

\* The PUT of a request has been carried out: it replaces the object at its key.
Stored(req) == {o \in objects : o.key # req.key} \cup {[key |-> req.key, body |-> req.body]}

BatchKey(sess, batch) == <<sess.session_id, "entries", batch[1].sequence, Last(batch).sequence>>
BatchBody(batch) == [i \in 1..Len(batch) |-> ChainedJSON(batch[i])]

\* The appends issued since the last initialize while an earlier append was
\* suspended: those that returned and those still suspended.  The handle
\* of the timer tells the calls of initialize apart.
OverlappingCalls ==
    Len(returnedAll) + Cardinality({c \in overlapped : c.since = flushInterval}) - appendCalls

\* The requests the overlapping appends are waiting for.
OverlappedRequests == {c.req : c \in overlapped}

\* The request the caller's suspended call is waiting for.
Awaited == CHOOSE req \in inflight : req.awaited

S3Storage_initialize(s) ==
    /\ kind = "S3Storage"
    /\ pc = "idle"
    /\ calls < MaxCalls
    /\ calls' = calls + 1
    /\ session' = s
    /\ heap' = HeapWithNewEntries
    /\ entries' = NewEntriesRef
    /\ pendingWrites' = <<>>
    /\ flushInterval' = nextTimer
    /\ timers' = timers \cup {nextTimer}
    /\ nextTimer' = nextTimer + 1
    /\ inflight' = inflight \cup {PutRequest(<<s.session_id, "session.json">>, s, TRUE)}
    /\ pc' = "initialize"
    /\ frame' = [NoFrame EXCEPT !.op = "initialize", !.arg = s, !.wasOpen = sessionOpen,
                                 !.countBefore = Len(heap[entries])]
    /\ returned' = NoEntry
    /\ appendCalls' = 0
    /\ returnedAll' = <<>>
    /\ UNCHANGED <<kind, callVars, overlapped, fsVars, objects, clock, sessionOpen, logs, finalizations, lastCall,
                   docVars>>

\* The PUT of session.json is answered and initialize returns.
S3Storage_initialize_return ==
    /\ kind = "S3Storage"
    /\ pc = "initialize"
    /\ objects' = Stored(Awaited)
    /\ inflight' = inflight \ {Awaited}
    /\ pc' = "idle"
    /\ frame' = NoFrame
    /\ lastCall' = ReturnsInitialize(frame.arg, frame.wasOpen, frame.countBefore)
    /\ sessionOpen' = TRUE
    /\ UNCHANGED <<kind, callVars, ledgerVars, overlapped, session, heap, entries, fsVars, pendingWrites, flushInterval,
                   timers, nextTimer, clock, logs, finalizations, returned,
                   appendCalls, returnedAll, calls, docVars>>

\* fetch rejects (the PUT of session.json did not reach the store): initialize
\* throws after it has set the fields and started the timer.
S3Storage_initialize_throws ==
    /\ kind = "S3Storage"
    /\ pc = "initialize"
    /\ inflight' = inflight \ {Awaited}
    /\ pc' = "idle"
    /\ frame' = NoFrame
    /\ lastCall' = [Throws("initialize", "TypeError", frame.countBefore, EMPTY)
                        EXCEPT !.arg = frame.arg]
    /\ UNCHANGED <<kind, callVars, ledgerVars, overlapped, session, heap, entries, fsVars, pendingWrites, flushInterval,
                   timers, nextTimer, objects, clock, logs, finalizations, returned,
                   appendCalls, returnedAll, calls, sessionOpen, docVars>>

\* Variant: flush copies the buffer and leaves it as it is.
S3Storage_timer_flush_keepsBuffer(t) ==
    /\ kind = "S3Storage"
    /\ t \in timers
    /\ pendingWrites # <<>>
    /\ inflight' = inflight \cup
            {PutRequest(BatchKey(session, pendingWrites), BatchBody(pendingWrites), FALSE)}
    /\ UNCHANGED <<kind, callVars, ledgerVars, overlapped, session, heap, entries, fsVars, flushInterval, timers, nextTimer,
                   objects, pc, frame, clock, logs, finalizations, lastCall, returned,
                   appendCalls, returnedAll, calls, sessionOpen, docVars, pendingWrites>>

\* The interval callback `void this.flush()`: with an empty buffer flush
\* returns at once; otherwise it takes the whole buffer and issues the PUT
\* of the batch, which nobody awaits.
S3Storage_timer_flush(t) ==
    /\ kind = "S3Storage"
    /\ t \in timers
    /\ pendingWrites # <<>>
    /\ pendingWrites' = <<>>
    /\ inflight' = inflight \cup
            {PutRequest(BatchKey(session, pendingWrites), BatchBody(pendingWrites), FALSE)}
    /\ UNCHANGED <<kind, callVars, ledgerVars, overlapped, session, heap, entries, fsVars, flushInterval, timers, nextTimer,
                   objects, pc, frame, clock, logs, finalizations, lastCall, returned,
                   appendCalls, returnedAll, calls, sessionOpen, docVars>>

\* The PUT issued by a timer flush is answered.
S3Storage_timer_flush_done(req) ==
    /\ kind = "S3Storage"
    /\ req \in inflight
    /\ ~req.awaited
    /\ req \notin OverlappedRequests
    /\ objects' = Stored(req)
    /\ inflight' = inflight \ {req}
    /\ UNCHANGED <<kind, callVars, ledgerVars, overlapped, session, heap, entries, fsVars, pendingWrites, flushInterval,
                   timers, nextTimer, pc, frame, clock, logs, finalizations, lastCall,
                   returned, appendCalls, returnedAll, calls, sessionOpen, docVars>>

\* fetch rejects for the PUT of a timer flush: the batch is in no object and
\* no longer in the buffer.
S3Storage_timer_flush_failed(req) ==
    /\ kind = "S3Storage"
    /\ req \in inflight
    /\ ~req.awaited
    /\ inflight' = inflight \ {req}
    /\ UNCHANGED <<kind, callVars, ledgerVars, overlapped, session, heap, entries, fsVars, pendingWrites, flushInterval,
                   timers, nextTimer, objects, pc, frame, clock, logs, finalizations,
                   lastCall, returned, appendCalls, returnedAll, calls, sessionOpen, docVars>>

\* Variant: append flushes only when the buffer holds more than the batch size.
S3Storage_append_flushAbove(entry) ==
    /\ kind = "S3Storage"
    /\ Initialized
    /\ pc = "idle"
    /\ calls < MaxCalls
    /\ calls' = calls + 1
    /\ LET es == heap[entries]
           previousHash == IF es # <<>> THEN Last(es).entry_hash ELSE EMPTY
           chained == createChainedEntry(entry, Len(es), previousHash)
           batch == Append(pendingWrites, chained)
       IN  /\ heap' = [heap EXCEPT ![entries] = Append(@, chained)]
           /\ IF Len(batch) > BatchSize
              THEN /\ pendingWrites' = <<>>
                   /\ inflight' = inflight \cup
                         {PutRequest(BatchKey(session, batch), BatchBody(batch), TRUE)}
                   /\ pc' = "append"
                   /\ frame' = [NoFrame EXCEPT !.op = "append", !.chained = chained,
                                                !.countBefore = Len(es)]
                   /\ UNCHANGED <<lastCall, returned, appendCalls, returnedAll>>
              ELSE /\ pendingWrites' = batch
                   /\ returned' = chained
                   /\ lastCall' = Returns("append")
                   /\ appendCalls' = appendCalls + 1
                   /\ returnedAll' = Append(returnedAll, returned')
                   /\ UNCHANGED <<inflight, pc, frame>>
    /\ UNCHANGED <<kind, callVars, overlapped, session, entries, fsVars, flushInterval, timers, nextTimer,
                   objects, clock, logs, finalizations, sessionOpen, docVars>>

\* Variant: an append that flushes pushes its entry without the entry hash.
S3Storage_append_hashesAfterFlush(entry) ==
    /\ kind = "S3Storage"
    /\ Initialized
    /\ pc = "idle"
    /\ calls < MaxCalls
    /\ calls' = calls + 1
    /\ LET es == heap[entries]
           previousHash == IF es # <<>> THEN Last(es).entry_hash ELSE EMPTY
           chained == createChainedEntry(entry, Len(es), previousHash)
           batch == Append(pendingWrites, chained)
       IN  /\ heap' = [heap EXCEPT ![entries] =
                         Append(@, IF Len(batch) >= BatchSize
                                   THEN [chained EXCEPT !.entry_hash = EMPTY]
                                   ELSE chained)]
           /\ IF Len(batch) >= BatchSize
              THEN /\ pendingWrites' = <<>>
                   /\ inflight' = inflight \cup
                         {PutRequest(BatchKey(session, batch), BatchBody(batch), TRUE)}
                   /\ pc' = "append"
                   /\ frame' = [NoFrame EXCEPT !.op = "append", !.chained = chained,
                                                !.countBefore = Len(es)]
                   /\ UNCHANGED <<lastCall, returned, appendCalls, returnedAll>>
              ELSE /\ pendingWrites' = batch
                   /\ returned' = chained
                   /\ lastCall' = Returns("append")
                   /\ appendCalls' = appendCalls + 1
                   /\ returnedAll' = Append(returnedAll, returned')
                   /\ UNCHANGED <<inflight, pc, frame>>
    /\ UNCHANGED <<kind, callVars, overlapped, session, entries, fsVars, flushInterval, timers, nextTimer,
                   objects, clock, logs, finalizations, sessionOpen, docVars>>

\* append up to its return or, with a full buffer, up to the await of the
\* flush, which takes the whole buffer and issues the PUT of the batch.
S3Storage_append(entry) ==
    /\ kind = "S3Storage"
    /\ Initialized
    /\ pc = "idle"
    /\ calls < MaxCalls
    /\ calls' = calls + 1
    /\ LET es == heap[entries]
           previousHash == IF es # <<>> THEN Last(es).entry_hash ELSE EMPTY
           chained == createChainedEntry(entry, Len(es), previousHash)
           batch == Append(pendingWrites, chained)
       IN  /\ heap' = [heap EXCEPT ![entries] = Append(@, chained)]
           /\ IF Len(batch) >= BatchSize
              THEN /\ pendingWrites' = <<>>
                   /\ inflight' = inflight \cup
                         {PutRequest(BatchKey(session, batch), BatchBody(batch), TRUE)}
                   /\ pc' = "append"
                   /\ frame' = [NoFrame EXCEPT !.op = "append", !.chained = chained,
                                                !.countBefore = Len(es)]
                   /\ UNCHANGED <<lastCall, returned, appendCalls, returnedAll>>
              ELSE /\ pendingWrites' = batch
                   /\ returned' = chained
                   /\ lastCall' = Returns("append")
                   /\ appendCalls' = appendCalls + 1
                   /\ returnedAll' = Append(returnedAll, returned')
                   /\ UNCHANGED <<inflight, pc, frame>>
    /\ UNCHANGED <<kind, callVars, overlapped, session, entries, fsVars, flushInterval, timers, nextTimer,
                   objects, clock, logs, finalizations, sessionOpen, docVars>>

\* The PUT of the batch is answered and append returns.
S3Storage_append_return ==
    /\ kind = "S3Storage"
    /\ pc = "append"
    /\ objects' = Stored(Awaited)
    /\ inflight' = inflight \ {Awaited}
    /\ pc' = "idle"
    /\ frame' = NoFrame
    /\ returned' = frame.chained
    /\ lastCall' = Returns("append")
    /\ appendCalls' = appendCalls + 1
    /\ returnedAll' = Append(returnedAll, returned')
    /\ UNCHANGED <<kind, callVars, ledgerVars, overlapped, session, heap, entries, fsVars, pendingWrites, flushInterval,
                   timers, nextTimer, clock, logs, finalizations, calls, sessionOpen, docVars>>

\* Variant: the overlapping append takes its sequence from the length the
\* list had when the suspended append was called.
S3Storage_append_overlapping_staleLength(entry) ==
    /\ kind = "S3Storage"
    /\ Initialized
    /\ pc = "append" \/ overlapped # {}
    /\ OverlappingCalls < MaxOverlap
    /\ LET es == heap[entries]
           previousHash == IF es # <<>> THEN Last(es).entry_hash ELSE EMPTY
           chained == createChainedEntry(entry, Len(es) - 1, previousHash)
           batch == Append(pendingWrites, chained)
           req == PutRequest(BatchKey(session, batch), BatchBody(batch), FALSE)
       IN  /\ heap' = [heap EXCEPT ![entries] = Append(@, chained)]
           /\ IF Len(batch) >= BatchSize
              THEN /\ pendingWrites' = <<>>
                   /\ inflight' = inflight \cup {req}
                   /\ overlapped' = overlapped \cup {[chained |-> chained, req |-> req, since |-> flushInterval]}
                   /\ UNCHANGED returnedAll
              ELSE /\ pendingWrites' = batch
                   /\ returnedAll' = Append(returnedAll, chained)
                   /\ UNCHANGED <<inflight, overlapped>>
    /\ UNCHANGED <<kind, callVars, ledgerVars, session, entries, fsVars, flushInterval, timers, nextTimer,
                   objects, pc, frame, clock, logs, finalizations, lastCall, returned,
                   appendCalls, calls, sessionOpen, docVars>>

\* append called while an earlier append is suspended in its flush: the
\* same statements, up to its return or to the await of its own flush.
S3Storage_append_overlapping(entry) ==
    /\ kind = "S3Storage"
    /\ Initialized
    /\ pc = "append" \/ overlapped # {}
    /\ OverlappingCalls < MaxOverlap
    /\ LET es == heap[entries]
           previousHash == IF es # <<>> THEN Last(es).entry_hash ELSE EMPTY
           chained == createChainedEntry(entry, Len(es), previousHash)
           batch == Append(pendingWrites, chained)
           req == PutRequest(BatchKey(session, batch), BatchBody(batch), FALSE)
       IN  /\ heap' = [heap EXCEPT ![entries] = Append(@, chained)]
           /\ IF Len(batch) >= BatchSize
              THEN /\ pendingWrites' = <<>>
                   /\ inflight' = inflight \cup {req}
                   /\ overlapped' = overlapped \cup {[chained |-> chained, req |-> req, since |-> flushInterval]}
                   /\ UNCHANGED returnedAll
              ELSE /\ pendingWrites' = batch
                   /\ returnedAll' = Append(returnedAll, chained)
                   /\ UNCHANGED <<inflight, overlapped>>
    /\ UNCHANGED <<kind, callVars, ledgerVars, session, entries, fsVars, flushInterval, timers, nextTimer,
                   objects, pc, frame, clock, logs, finalizations, lastCall, returned,
                   appendCalls, calls, sessionOpen, docVars>>

\* The PUT of the batch of an overlapping append is answered and it returns;
\* returnedAll lists what the appends since the last initialize returned.
S3Storage_append_overlapping_return(c) ==
    /\ kind = "S3Storage"
    /\ c \in overlapped
    /\ objects' = Stored(c.req)
    /\ inflight' = inflight \ {c.req}
    /\ overlapped' = overlapped \ {c}
    /\ returnedAll' = IF c.since = flushInterval THEN Append(returnedAll, c.chained) ELSE returnedAll
    /\ UNCHANGED <<kind, callVars, ledgerVars, session, heap, entries, fsVars, pendingWrites,
                   flushInterval, timers, nextTimer, pc, frame, clock, logs, finalizations,
                   lastCall, returned, appendCalls, calls, sessionOpen, docVars>>

\* fetch rejects for the PUT of the batch: flush throws and append throws
\* with it, after the pushes to this.entries and the splice of the buffer.
S3Storage_append_throws ==
    /\ kind = "S3Storage"
    /\ pc = "append"
    /\ inflight' = inflight \ {Awaited}
    /\ pc' = "idle"
    /\ frame' = NoFrame
    /\ lastCall' = Throws("append", "TypeError", frame.countBefore, frame.chained.previous_hash)
    /\ UNCHANGED <<kind, callVars, ledgerVars, overlapped, session, heap, entries, fsVars, pendingWrites, flushInterval,
                   timers, nextTimer, objects, clock, logs, finalizations, returned,
                   appendCalls, returnedAll, calls, sessionOpen, docVars>>

\* close from line 1621 on: the log is built and the PUT of audit.final.json
\* is issued.  op is "close" or, for the close that export runs, "export".
S3Storage_finalize(op, privateKey, publicKey) ==
    LET log == BuildLog(session, entries, heap[entries], privateKey, publicKey)
    IN  /\ frame' = [NoFrame EXCEPT !.op = op, !.log = log, !.privateKey = privateKey,
                                     !.publicKey = publicKey]
        /\ finalizations' = Append(finalizations, Finalized(op, log, heap[entries]))
        /\ pc' = "close_final"
        /\ inflight' = (inflight \ {req \in inflight : req.awaited}) \cup
              {PutRequest(<<session.session_id, "audit.final.json">>,
                          LogJSON(log, heap[entries]), TRUE)}

\* close (and the close inside export) up to its first suspension: the
\* timer this.flushInterval is cleared, then flush either returns at once
\* (empty buffer: close goes on to build the log) or awaits its PUT.
S3Storage_close_begin(op, privateKey, publicKey) ==
    /\ kind = "S3Storage"
    /\ pc = "idle"
    /\ Initialized
    /\ calls < MaxCalls
    /\ calls' = calls + 1
    /\ timers' = timers \ {flushInterval}
    /\ IF pendingWrites = <<>>
       THEN /\ S3Storage_finalize(op, privateKey, publicKey)
            /\ UNCHANGED pendingWrites
       ELSE /\ pendingWrites' = <<>>
            /\ inflight' = inflight \cup
                  {PutRequest(BatchKey(session, pendingWrites), BatchBody(pendingWrites), TRUE)}
            /\ pc' = "close_flush"
            /\ frame' = [NoFrame EXCEPT !.op = op, !.privateKey = privateKey,
                                         !.publicKey = publicKey]
            /\ UNCHANGED finalizations
    /\ UNCHANGED <<kind, callVars, overlapped, session, heap, entries, fsVars, flushInterval, nextTimer, objects,
                   clock, logs, lastCall, returned, appendCalls, returnedAll, sessionOpen, docVars>>

S3Storage_close(privateKey, publicKey) == S3Storage_close_begin("close", privateKey, publicKey)

S3Storage_export == S3Storage_close_begin("export", 0, 0)

\* The PUT of the final flush is answered: close goes on to build the log.
S3Storage_close_flushed ==
    /\ kind = "S3Storage"
    /\ pc = "close_flush"
    /\ objects' = Stored(Awaited)
    /\ S3Storage_finalize(frame.op, frame.privateKey, frame.publicKey)
    /\ UNCHANGED <<kind, callVars, ledgerVars, overlapped, session, heap, entries, fsVars, pendingWrites, flushInterval,
                   timers, nextTimer, clock, logs, lastCall, returned, appendCalls, returnedAll,
                   calls, sessionOpen, docVars>>

\* The PUT of audit.final.json is answered: close returns the log, export
\* hands it to the converter.
S3Storage_close_return ==
    /\ kind = "S3Storage"
    /\ pc = "close_final"
    /\ objects' = Stored(Awaited)
    /\ inflight' = inflight \ {Awaited}
    /\ pc' = "idle"
    /\ frame' = NoFrame
    /\ logs' = IF frame.op = "close" THEN Append(logs, frame.log) ELSE logs
    /\ lastCall' = IF frame.op = "close" THEN ReturnsClose(frame.privateKey, frame.publicKey)
                    ELSE Returns(frame.op)
    /\ sessionOpen' = FALSE
    /\ UNCHANGED <<kind, callVars, ledgerVars, overlapped, session, heap, entries, fsVars, pendingWrites, flushInterval,
                   timers, nextTimer, clock, finalizations, returned, appendCalls, returnedAll,
                   calls, docVars>>

\* fetch rejects for the PUT close is waiting for (the final flush or
\* audit.final.json): close, or the export that runs it, throws.
S3Storage_close_throws ==
    /\ kind = "S3Storage"
    /\ pc \in {"close_flush", "close_final"}
    /\ inflight' = inflight \ {Awaited}
    /\ pc' = "idle"
    /\ lastCall' = Throws(frame.op, "TypeError", Len(heap[entries]), EMPTY)
    /\ frame' = NoFrame
    /\ UNCHANGED <<kind, callVars, ledgerVars, overlapped, session, heap, entries, fsVars, pendingWrites, flushInterval,
                   timers, nextTimer, objects, clock, logs, finalizations, returned,
                   appendCalls, returnedAll, calls, sessionOpen, docVars>>

----------------------------------------------------------------------------
(* Read operations of the StorageBackend interface *)

\* Variant: S3Storage answers getAll from the entries it has handed to a
\* flush.
getAll_flushedOnly ==
    IF kind = "FileSystemStorage" THEN FileSystemStorage_getAll
    ELSE IF kind = "S3Storage"
         THEN SubSeq(heap[entries], 1, Len(heap[entries]) - Len(pendingWrites))
         ELSE heap[entries]

getAll == IF kind = "FileSystemStorage" THEN FileSystemStorage_getAll ELSE heap[entries]

Min(a, b) == IF a < b THEN a ELSE b
Max(a, b) == IF a > b THEN a ELSE b

\* Array.prototype.slice(start, end): a negative argument counts back from
\* the end of the array, and both are then held within 0..length.
slice(arr, start, end) ==
    LET len == Len(arr)
        k == IF start < 0 THEN Max(len + start, 0) ELSE Min(start, len)
        final == IF end < 0 THEN Max(len + end, 0) ELSE Min(end, len)
    IN  IF final <= k THEN <<>> ELSE SubSeq(arr, k + 1, final)

\* getRange: this.entries.slice(start, end), for FileSystemStorage
\* (await this.getAll()).slice(start, end).
getRange(start, end) == slice(getAll, start, end)

\* The integers a caller passes to getRange.
RangeArgs == (0 - MaxIndex)..MaxIndex

\* Variant: S3Storage counts only the entries it has handed to a flush.
count_flushedOnly ==
    IF kind = "FileSystemStorage" THEN entryCount
    ELSE Len(heap[entries]) - (IF kind = "S3Storage" THEN Len(pendingWrites) ELSE 0)

count == IF kind = "FileSystemStorage" THEN entryCount ELSE Len(heap[entries])

verifyStorage == verifyChain(getAll)

getSession == session

\* What the steps of a read leave alone; a read counts as a call and is
\* told apart by its number.
ReadFrame ==
    /\ calls < MaxCalls
    /\ calls' = calls + 1
    /\ args' = <<"call", calls'>>
    /\ UNCHANGED <<kind, overlapped, session, memVars, fsVars, s3Vars, clock, logs,
                   finalizations, lastCall, returned, appendCalls, returnedAll,
                   sessionOpen, docVars, ledgerVars>>

\* Variant: getAll returns this.entries itself.
Read_getAll_returnsReference ==
    /\ Initialized
    /\ ReadFrame
    /\ fn' = "getAll"
    /\ IF kind = "FileSystemStorage"
       THEN /\ heap' = Append(heap, getAll)
            /\ result' = <<"list", Len(heap) + 1>>
       ELSE /\ heap' = heap
            /\ result' = <<"list", entries>>

\* getAll: a new array with the entries of this.entries, or the array
\* FileSystemStorage fills from the file; the caller holds a reference to it.
Read_getAll ==
    /\ Initialized
    /\ ReadFrame
    /\ fn' = "getAll"
    /\ heap' = Append(heap, getAll)
    /\ result' = <<"list", Len(heap) + 1>>

\* getRange: slice returns a new array.
Read_getRange(start, end) ==
    /\ Initialized
    /\ ReadFrame
    /\ fn' = "getRange"
    /\ heap' = Append(heap, getRange(start, end))
    /\ result' = <<"list", Len(heap) + 1>>

Read_count ==
    /\ Initialized
    /\ ReadFrame
    /\ fn' = "count"
    /\ result' = <<"number", count>>
    /\ UNCHANGED heap

Read_verify ==
    /\ Initialized
    /\ ReadFrame
    /\ fn' = "verify"
    /\ result' = <<"verdict", verifyStorage.valid, verifyStorage.errors>>
    /\ UNCHANGED heap

Read_getSession ==
    /\ Initialized
    /\ ReadFrame
    /\ fn' = "getSession"
    /\ result' = <<"session", getSession>>
    /\ UNCHANGED heap

\* The caller holds a list a read returned.
HoldsList == fn \in {"getAll", "getRange", "push", "pop"}

\* The caller pushes an entry of its own to the list it holds.
Caller_push(chained) ==
    /\ HoldsList
    /\ ReadFrame
    /\ fn' = "push"
    /\ heap' = [heap EXCEPT ![result[2]] = Append(@, chained)]
    /\ UNCHANGED result

\* The caller pops the last entry of the list it holds.
Caller_pop ==
    /\ HoldsList
    /\ heap[result[2]] # <<>>
    /\ ReadFrame
    /\ fn' = "pop"
    /\ heap' = [heap EXCEPT ![result[2]] = SubSeq(@, 1, Len(@) - 1)]
    /\ UNCHANGED result

----------------------------------------------------------------------------
(* The caller issues one call at a time and awaits it; initialize is its  *)
(* first call.                                                            *)

Next ==
    \/ Tick
    \/ \E id \in Sessions : Direct /\ InMemoryStorage_initialize(SessionEnvelope(id))
    \/ \E entry \in AuditEntries : Direct /\ InMemoryStorage_append(entry)
    \/ \E k \in KeyArgs : Direct /\ InMemoryStorage_close(k[1], k[2])
    \/ Direct /\ InMemoryStorage_export
    \/ \E id \in Sessions : Direct /\ FileSystemStorage_initialize(SessionEnvelope(id))
    \/ \E entry \in AuditEntries : Direct /\ FileSystemStorage_append(entry)
    \/ \E k \in KeyArgs : Direct /\ FileSystemStorage_close(k[1], k[2])
    \/ Direct /\ FileSystemStorage_export
    \/ \E id \in Sessions : Direct /\ S3Storage_initialize(SessionEnvelope(id))
    \/ S3Storage_initialize_return
    \/ \E t \in timers : S3Storage_timer_flush(t)
    \/ \E req \in inflight : S3Storage_timer_flush_done(req)
    \/ \E entry \in AuditEntries : Direct /\ S3Storage_append(entry)
    \/ S3Storage_append_return
    \/ \E k \in KeyArgs : Direct /\ S3Storage_close(k[1], k[2])
    \/ Direct /\ S3Storage_export
    \/ S3Storage_close_flushed
    \/ S3Storage_close_return

Spec == Init /\ [][Next]_vars

\* The same caller on a file system and an object store that may refuse a
\* write: appendFileSync throws, fetch rejects.
NextFaults ==
    \/ Next
    \/ \E entry \in AuditEntries : FileSystemStorage_append_throws(entry)
    \/ S3Storage_initialize_throws
    \/ \E req \in inflight : S3Storage_timer_flush_failed(req)
    \/ S3Storage_append_throws
    \/ S3Storage_close_throws

SpecFaults == Init /\ [][NextFaults]_vars

\* The serialized caller of the common contract: initialize, append and
\* close without keys, on each of the three backends.
NextContract ==
    \/ \E id \in Sessions : Direct /\ InMemoryStorage_initialize(SessionEnvelope(id))
    \/ \E entry \in AuditEntries : Direct /\ InMemoryStorage_append(entry)
    \/ Direct /\ InMemoryStorage_close(0, 0)
    \/ \E id \in Sessions : Direct /\ FileSystemStorage_initialize(SessionEnvelope(id))
    \/ \E entry \in AuditEntries : Direct /\ FileSystemStorage_append(entry)
    \/ Direct /\ FileSystemStorage_close(0, 0)
    \/ \E id \in Sessions : Direct /\ S3Storage_initialize(SessionEnvelope(id))
    \/ S3Storage_initialize_return
    \/ \E t \in timers : S3Storage_timer_flush(t)
    \/ \E req \in inflight : S3Storage_timer_flush_done(req)
    \/ \E entry \in AuditEntries : Direct /\ S3Storage_append(entry)
    \/ S3Storage_append_return
    \/ Direct /\ S3Storage_close(0, 0)
    \/ S3Storage_close_flushed
    \/ S3Storage_close_return

SpecContract == Init /\ [][NextContract]_vars

\* The serialized caller of a FileSystemStorage whose appendFileSync may
\* throw.
InitFile == Init /\ kind = "FileSystemStorage"

NextFile ==
    \/ Tick
    \/ \E id \in Sessions : Direct /\ FileSystemStorage_initialize(SessionEnvelope(id))
    \/ \E entry \in AuditEntries : Direct /\ FileSystemStorage_append(entry)
    \/ \E entry \in AuditEntries : FileSystemStorage_append_throws(entry)
    \/ \E k \in KeyArgs : Direct /\ FileSystemStorage_close(k[1], k[2])
    \/ Direct /\ FileSystemStorage_export

SpecFile == InitFile /\ [][NextFile]_vars

\* A caller that initializes a backend and appends, and does not await an
\* append of S3Storage before it calls append again.  On InMemoryStorage
\* and FileSystemStorage append has no await: a call has run to its end
\* when the next one starts.
NextOverlap ==
    \/ \E id \in Sessions : Direct /\ InMemoryStorage_initialize(SessionEnvelope(id))
    \/ \E entry \in AuditEntries : Direct /\ InMemoryStorage_append(entry)
    \/ \E id \in Sessions : Direct /\ FileSystemStorage_initialize(SessionEnvelope(id))
    \/ \E entry \in AuditEntries : Direct /\ FileSystemStorage_append(entry)
    \/ \E id \in Sessions : Direct /\ S3Storage_initialize(SessionEnvelope(id))
    \/ S3Storage_initialize_return
    \/ \E t \in timers : S3Storage_timer_flush(t)
    \/ \E req \in inflight : S3Storage_timer_flush_done(req)
    \/ \E entry \in AuditEntries : Direct /\ S3Storage_append(entry)
    \/ S3Storage_append_return
    \/ S3Storage_append_overlapping(E2)    \* the payload plays no part
    \/ \E c \in overlapped : S3Storage_append_overlapping_return(c)

SpecOverlap == Init /\ [][NextOverlap]_vars

\* A caller that initializes a backend, appends and reads; a read may be
\* called while an append of S3Storage is suspended in its flush, and the
\* caller may change the lists the reads returned.
NextRead ==
    \/ \E id \in Sessions : Direct /\ InMemoryStorage_initialize(SessionEnvelope(id))
    \/ \E entry \in AuditEntries : Direct /\ InMemoryStorage_append(entry)
    \/ \E id \in Sessions : Direct /\ FileSystemStorage_initialize(SessionEnvelope(id))
    \/ \E entry \in AuditEntries : Direct /\ FileSystemStorage_append(entry)
    \/ \E id \in Sessions : Direct /\ S3Storage_initialize(SessionEnvelope(id))
    \/ S3Storage_initialize_return
    \/ \E t \in timers : S3Storage_timer_flush(t)
    \/ \E req \in inflight : S3Storage_timer_flush_done(req)
    \/ \E entry \in AuditEntries : Direct /\ S3Storage_append(entry)
    \/ S3Storage_append_return
    \/ Read_getAll
    \/ \E start, end \in {0 - 1, 0, 1} : Read_getRange(start, end)
    \/ Read_count
    \/ Read_verify
    \/ Read_getSession
    \/ Caller_push(createChainedEntry(E2, 0, EMPTY))
    \/ Caller_pop

SpecRead == Init /\ [][NextRead]_vars

----------------------------------------------------------------------------
(* The finalized document and the checks `agentledger verify` runs on it   *)
(* (cli/src/index.ts:78-124).  A modifier holds the document close()       *)
(* produced and changes its entries and its merkle_root; it cannot sign.   *)

ChainCheck(d) == verifyChain(d.entries).valid

MerkleCheck(d) == buildMerkleTree(EntryHashes(d.entries)).root = d.merkle_root

SignatureCheck(d) ==
    verifyAuditLogSignature(d.session, d.entries, d.merkle_root, d.org_signature)

\* Payloads a modifier writes into the document (JSON text has no undefined).
TamperEntries == {E1r, E2}

\* Every entry renumbered, relinked and rehashed, as createChainedEntry
\* would have produced the list.
RECURSIVE Rechain(_, _, _)
Rechain(es, i, previousHash) ==
    IF i > Len(es) THEN <<>>
    ELSE LET chained == createChainedEntry(es[i].entry, i - 1, previousHash)
         IN  <<chained>> \o Rechain(es, i + 1, chained.entry_hash)

\* What the modifier repairs after a change of the entries: nothing, every
\* entry hash, or every entry hash and the Merkle root.
Repairs == {"none", "hashes", "hashes and root"}

Modified(es, repair) ==
    LET es2 == IF repair = "none" THEN es ELSE Rechain(es, 1, EMPTY)
    IN  [doc EXCEPT !.entries = es2,
                    !.merkle_root = IF repair = "hashes and root"
                                      THEN buildMerkleTree(EntryHashes(es2)).root
                                      ELSE @]

RemoveAt(es, i) == SubSeq(es, 1, i - 1) \o SubSeq(es, i + 1, Len(es))
InsertAt(es, i, e) == SubSeq(es, 1, i - 1) \o <<e>> \o SubSeq(es, i, Len(es))
SwapAt(es, i) == [es EXCEPT ![i] = es[i + 1], ![i + 1] = es[i]]

\* The document leaves the program when close() has returned it.
ObtainDocument ==
    /\ doc = NoDocument
    /\ pc = "idle"
    /\ lastCall.op = "close" /\ lastCall.status = "ok"
    /\ LET log == Last(logs)
       IN  /\ doc' = LogJSON(log, heap[log.entries])
           /\ orig' = LogJSON(log, heap[log.entries])
    /\ UNCHANGED <<kind, callVars, ledgerVars, overlapped, session, heap, memVars, fsVars, s3Vars, clock, logs, finalizations,
                   lastCall, returned, appendCalls, returnedAll, calls, sessionOpen, tamperSteps>>

TamperStep(d) ==
    /\ doc # NoDocument
    /\ tamperSteps < MaxTamper
    /\ doc' = d
    /\ d # doc
    /\ tamperSteps' = tamperSteps + 1
    /\ UNCHANGED <<kind, callVars, ledgerVars, overlapped, session, heap, memVars, fsVars, s3Vars, clock, logs, finalizations,
                   lastCall, returned, appendCalls, returnedAll, calls, sessionOpen, orig>>

Tamper_editPayload(i, entry, repair) ==
    /\ doc # NoDocument
    /\ i \in 1..Len(doc.entries)
    /\ TamperStep(Modified([doc.entries EXCEPT ![i].entry = entry], repair))

Tamper_deleteEntry(i, repair) ==
    /\ doc # NoDocument
    /\ i \in 1..Len(doc.entries)
    /\ TamperStep(Modified(RemoveAt(doc.entries, i), repair))

Tamper_insertEntry(i, entry, repair) ==
    /\ doc # NoDocument
    /\ i \in 1..(Len(doc.entries) + 1)
    /\ LET previousHash == IF i > 1 THEN doc.entries[i - 1].entry_hash ELSE EMPTY
       IN  TamperStep(Modified(InsertAt(doc.entries, i,
                                        createChainedEntry(entry, i - 1, previousHash)),
                               repair))

Tamper_reorderEntries(i, repair) ==
    /\ doc # NoDocument
    /\ i \in 1..(Len(doc.entries) - 1)
    /\ TamperStep(Modified(SwapAt(doc.entries, i), repair))

Tamper_setMerkleRoot(root) ==
    /\ doc # NoDocument
    /\ TamperStep([doc EXCEPT !.merkle_root = root])

\* Values a modifier may write as merkle_root: the empty string, an entry
\* hash of the document, the root of a prefix of its entries.
RootChoices(d) ==
    {EMPTY} \cup {d.entries[i].entry_hash : i \in 1..Len(d.entries)}
            \cup {buildMerkleTree(EntryHashes(SubSeq(d.entries, 1, n))).root :
                     n \in 0..Len(d.entries)}

\* A session is recorded and closed with a signing key pair before the
\* interval timer of S3Storage has fired, then the document is modified.
Recording == doc = NoDocument

NextTamper ==
    \/ Direct /\ Recording /\ InMemoryStorage_initialize(SessionEnvelope(1))
    \/ \E entry \in AuditEntries : Direct /\ Recording /\ InMemoryStorage_append(entry)
    \/ Direct /\ Recording /\ InMemoryStorage_close(1, 1)
    \/ Direct /\ Recording /\ FileSystemStorage_initialize(SessionEnvelope(1))
    \/ \E entry \in AuditEntries : Direct /\ Recording /\ FileSystemStorage_append(entry)
    \/ Direct /\ Recording /\ FileSystemStorage_close(1, 1)
    \/ Direct /\ Recording /\ S3Storage_initialize(SessionEnvelope(1))
    \/ Recording /\ S3Storage_initialize_return
    \/ \E entry \in AuditEntries : Direct /\ Recording /\ S3Storage_append(entry)
    \/ Recording /\ S3Storage_append_return
    \/ Direct /\ Recording /\ S3Storage_close(1, 1)
    \/ Recording /\ S3Storage_close_flushed
    \/ Recording /\ S3Storage_close_return
    \/ ObtainDocument
    \/ \E i \in 1..MaxCalls, entry \in TamperEntries, repair \in Repairs :
          Tamper_editPayload(i, entry, repair)
    \/ \E i \in 1..MaxCalls, repair \in Repairs : Tamper_deleteEntry(i, repair)
    \/ \E i \in 1..MaxCalls, entry \in TamperEntries, repair \in Repairs :
          Tamper_insertEntry(i, entry, repair)
    \/ \E i \in 1..MaxCalls, repair \in Repairs : Tamper_reorderEntries(i, repair)
    \/ \E root \in (IF doc = NoDocument THEN {} ELSE RootChoices(doc)) : Tamper_setMerkleRoot(root)

SpecTamper == Init /\ [][NextTamper]_vars

----------------------------------------------------------------------------
(* A caller that applies the functions of crypto.ts to values of its own,  *)
(* as the tests of crypto.ts do.                                           *)

storageVars == <<kind, overlapped, session, heap, memVars, fsVars, s3Vars, clock, logs, finalizations,
                 lastCall, returned, appendCalls, returnedAll, calls, sessionOpen>>

\* Arguments of verifyChainLink: a current entry whose sequence, previous
\* hash and entry hash each agree or not with the previous entry (or null).
LinkPrevious == {createChainedEntry(E2, sq, EMPTY) : sq \in 0..1}

LinkCurrent ==
    {[sequence |-> sq, entry |-> e, previous_hash |-> ph,
      entry_hash |-> IF ok THEN hashObject(sq, e, ph) ELSE hashObject(sq + 1, e, ph)] :
        sq \in 0..2, e \in {E1, E2},
        ph \in {EMPTY} \cup {p.entry_hash : p \in LinkPrevious}, ok \in BOOLEAN}

LinkArgs ==
    {[current |-> c, hasPrev |-> FALSE, previous |-> NoEntry] : c \in LinkCurrent}
    \cup {[current |-> c, hasPrev |-> TRUE, previous |-> p] :
              c \in LinkCurrent, p \in LinkPrevious}

\* Arguments of verifyChain: a chain as the backends build it, each entry
\* left as it is or with one of its stored fields changed.
Corruptions == {"none", "sequence", "previous_hash", "entry_hash", "entry"}

Corrupted(e, c) ==
    CASE c = "none"          -> e
      [] c = "sequence"      -> [e EXCEPT !.sequence = @ + 1]
      [] c = "previous_hash" -> [e EXCEPT !.previous_hash = sha256(<<0>>)]
      [] c = "entry_hash"    -> [e EXCEPT !.entry_hash = sha256(<<0>>)]
      [] c = "entry"         -> [e EXCEPT !.entry = E1]

ChainOf(n) == Rechain([i \in 1..n |-> [entry |-> E2]], 1, EMPTY)

ChainArgs ==
    UNION {{[i \in 1..n |-> Corrupted(ChainOf(n)[i], cs[i])] : cs \in [1..n -> Corruptions]} :
              n \in 0..MaxChain}

\* Arguments of the Merkle functions: a list of leaf hashes and an index.
LeafHashes == {sha256(<<v>>) : v \in 1..2}

MerkleArgs ==
    UNION {{[hashes |-> hs, index |-> k] : hs \in [1..n -> LeafHashes], k \in 0..(n - 1)} :
              n \in 1..MaxLeaves}
    \cup {[hashes |-> <<>>, index |-> 0]}
    \cup {[hashes |-> EntryHashes(ChainOf(n)), index |-> 0] : n \in 1..MaxChain}

\* Arguments of sign: a text and a private key.
SignData == {<<"data", v>> : v \in 1..2}
SignArgs == {[data |-> d, privateKey |-> k] : d \in SignData, k \in KeyIds}

\* A string that is no key.
NotAKey == 9

\* Arguments of signAuditLog: a log built over a chain, closed or not, and
\* two key strings, of one pair or not.
LogArgs ==
    {[log |-> [session |-> [session_id |-> id, closed_at |-> at],
               entries |-> ChainOf(n),
               merkle_root |-> buildMerkleTree(EntryHashes(ChainOf(n))).root,
               org_signature |-> NoSignature],
      privateKey |-> k[1], publicKey |-> k[2]] :
        id \in Sessions, at \in 0..1, n \in 0..2, k \in KeyIds \X KeyIds}

\* Values handed to hashObject: objects of two properties in either order
\* of insertion, arrays of numbers, objects that hold such an object, arrays
\* of such objects, and objects that hold such an array.
FlatObjects ==
    {Obj(<<<<k[1], Num(v[1])>>, <<k[2], Num(v[2])>>>>) :
        k \in {<<"entry_id", "type">>, <<"type", "entry_id">>}, v \in (1..2) \X (1..2)}
NumArrays == {Arr(<<Num(v[1]), Num(v[2])>>) : v \in (1..2) \X (1..2)}
NestedObjects ==
    {Obj(<<<<"type", o>>, <<"cost_usd", Num(1)>>>>) : o \in FlatObjects}
    \cup {Obj(<<<<"cost_usd", Num(1)>>, <<"type", o>>>>) : o \in FlatObjects}
SomeObjects ==
    {Obj(<<<<"entry_id", Num(1)>>, <<"type", Num(2)>>>>),
     Obj(<<<<"type", Num(2)>>, <<"entry_id", Num(1)>>>>),
     Obj(<<<<"entry_id", Num(2)>>, <<"type", Num(2)>>>>)}
ObjectArrays == {Arr(<<o[1], o[2]>>) : o \in SomeObjects \X SomeObjects}
HoldingObjects == {Obj(<<<<"type", a>>>>) : a \in ObjectArrays}
HashValues == FlatObjects \cup NumArrays \cup NestedObjects \cup ObjectArrays \cup HoldingObjects
HashArgs == {[a |-> v[1], b |-> v[2]] : v \in HashValues \X HashValues}

\* Arguments of two calls of createChainedEntry.
EntryArgs ==
    {[entry |-> e, sequence |-> n, previousHash |-> h] :
        e \in {E1, E1r, E1u, E2}, n \in 0..2,
        h \in {EMPTY, ChainOf(1)[1].entry_hash, ChainOf(2)[2].entry_hash}}
ChainedArgs == {[a |-> x[1], b |-> x[2]] : x \in EntryArgs \X EntryArgs}

InitCrypto ==
    /\ Constructed
    /\ NoLedger
    /\ kind = "InMemoryStorage"
    /\ result = NoResult
    /\ \/ fn = "verifyChainLink" /\ args \in LinkArgs
       \/ fn = "verifyChain" /\ args \in ChainArgs
       \/ fn = "buildMerkleTree" /\ args \in MerkleArgs
       \/ fn = "sign" /\ args \in SignArgs
       \/ fn = "hashObject" /\ args \in HashArgs
       \/ fn = "createChainedEntry" /\ args \in ChainedArgs
       \/ fn = "signAuditLog" /\ args \in LogArgs

Apply_verifyChainLink ==
    /\ fn = "verifyChainLink"
    /\ result = NoResult
    /\ result' = <<verifyChainLink(args.current, args.hasPrev, args.previous)>>
    /\ UNCHANGED <<storageVars, ledgerVars, docVars, fn, args>>

Apply_verifyChain ==
    /\ fn = "verifyChain"
    /\ result = NoResult
    /\ result' = <<verifyChain(args)>>
    /\ UNCHANGED <<storageVars, ledgerVars, docVars, fn, args>>

Apply_buildMerkleTree ==
    /\ fn = "buildMerkleTree"
    /\ result = NoResult
    /\ result' = <<buildMerkleTree(args.hashes)>>
    /\ fn' = IF args.hashes = <<>> THEN "done" ELSE "getMerkleProof"
    /\ UNCHANGED <<storageVars, ledgerVars, docVars, args>>

Apply_getMerkleProof ==
    /\ fn = "getMerkleProof"
    /\ result' = <<result[1], getMerkleProof(result[1].tree, args.index)>>
    /\ fn' = "verifyMerkleProof"
    /\ UNCHANGED <<storageVars, ledgerVars, docVars, args>>

\* Values the caller may hand to verifyMerkleProof in place of the leaf or
\* of the root: the empty string, leaf hashes and the nodes of the tree.
OtherHashes(tree) ==
    {EMPTY, sha256(<<0>>)} \cup LeafHashes
    \cup UNION {{tree[l][i] : i \in 1..Len(tree[l])} : l \in 2..Len(tree)}

Apply_verifyMerkleProof(leafHash, root) ==
    /\ fn = "verifyMerkleProof"
    /\ result' = <<result[1], result[2],
                   [leafHash |-> leafHash, root |-> root,
                    valid |-> verifyMerkleProof(leafHash, result[2], root)]>>
    /\ fn' = "done"
    /\ UNCHANGED <<storageVars, ledgerVars, docVars, args>>

\* sign is applied twice to the same arguments.
Apply_sign ==
    /\ fn = "sign"
    /\ result' = Append(result, sign(args.data, args.privateKey))
    /\ fn' = IF Len(result) = 1 THEN "verify" ELSE "sign"
    /\ UNCHANGED <<storageVars, ledgerVars, docVars, args>>

\* Signature strings the caller may hand to verify in place of the one
\* sign returned: that one with a skipped character added, signatures of
\* other data and by other keys, and texts that hold no signature.
OtherSignatures(signature) ==
    {WithSkippedCharacter(signature), toBase64(EMPTY), toBase64(<<"sig">>)}
    \cup {sign(d, k) : d \in SignData, k \in KeyIds}

Apply_verify(data, signature, publicKey) ==
    /\ fn = "verify"
    /\ result' = Append(result, [data |-> data, signature |-> signature,
                                 publicKey |-> publicKey,
                                 valid |-> verify(data, signature, publicKey)])
    /\ fn' = "verified"
    /\ UNCHANGED <<storageVars, ledgerVars, docVars, args>>

Apply_signAuditLog ==
    /\ fn = "signAuditLog"
    /\ result' = <<[args.log EXCEPT !.org_signature =
                       signAuditLog(args.log.session, args.log.entries, args.log.merkle_root,
                                    args.privateKey, args.publicKey, timestamp)]>>
    /\ fn' = "change"
    /\ UNCHANGED <<storageVars, ledgerVars, docVars, args>>

\* What the holder of the signed log changes before it is verified.
Changes == {"none", "session_id", "merkle_root", "entry_added", "entry_removed",
            "closed_at", "payload", "org_signature"}

Changed(log, c) ==
    CASE c = "none"          -> log
      [] c = "session_id"    -> [log EXCEPT !.session.session_id = @ + 1]
      [] c = "merkle_root"   -> [log EXCEPT !.merkle_root = sha256(<<0>>)]
      [] c = "entry_added"   ->
            [log EXCEPT !.entries = Append(@, createChainedEntry(E2, Len(@), EMPTY))]
      [] c = "entry_removed" -> [log EXCEPT !.entries = SubSeq(@, 1, Len(@) - 1)]
      [] c = "closed_at"     -> [log EXCEPT !.session.closed_at = @ + 1]
      [] c = "payload"       -> [log EXCEPT !.entries[1].entry = E1]
      [] c = "org_signature" -> [log EXCEPT !.org_signature = NoSignature]

Apply_change(c) ==
    /\ fn = "change"
    /\ c \in {"entry_removed", "payload"} => result[1].entries # <<>>
    /\ result' = Append(result, [change |-> c, log |-> Changed(result[1], c)])
    /\ fn' = "verifyAuditLogSignature"
    /\ UNCHANGED <<storageVars, ledgerVars, docVars, args>>

Apply_verifyAuditLogSignature ==
    /\ fn = "verifyAuditLogSignature"
    /\ LET log == result[2].log
       IN  result' = Append(result,
                 [valid |-> verifyAuditLogSignature(log.session, log.entries,
                                                    log.merkle_root, log.org_signature)])
    /\ fn' = "checked"
    /\ UNCHANGED <<storageVars, ledgerVars, docVars, args>>

\* hashObject is applied to the two values.
Apply_hashObject ==
    /\ fn = "hashObject"
    /\ result' = <<hashValue(args.a), hashValue(args.b)>>
    /\ fn' = "hashed"
    /\ UNCHANGED <<storageVars, ledgerVars, docVars, args>>

\* createChainedEntry is called twice with the first arguments and once
\* with the second.
Apply_createChainedEntry ==
    /\ fn = "createChainedEntry"
    /\ result' = <<createChainedEntry(args.a.entry, args.a.sequence, args.a.previousHash),
                   createChainedEntry(args.a.entry, args.a.sequence, args.a.previousHash),
                   createChainedEntry(args.b.entry, args.b.sequence, args.b.previousHash)>>
    /\ fn' = "chained"
    /\ UNCHANGED <<storageVars, ledgerVars, docVars, args>>

NextCrypto ==
    \/ Apply_hashObject
    \/ Apply_createChainedEntry
    \/ Apply_sign
    \/ \E signature \in (IF fn = "verify" THEN {result[1]} \cup OtherSignatures(result[1])
                           ELSE {}),
          data \in SignData, publicKey \in KeyIds \cup {NotAKey} :
          Apply_verify(data, signature, publicKey)
    \/ Apply_signAuditLog
    \/ \E c \in Changes : Apply_change(c)
    \/ Apply_verifyAuditLogSignature
    \/ Apply_verifyChainLink
    \/ Apply_verifyChain
    \/ Apply_buildMerkleTree
    \/ Apply_getMerkleProof
    \/ \E leafHash \in (IF fn = "verifyMerkleProof"
                         THEN {args.hashes[args.index + 1]} \cup OtherHashes(result[1].tree)
                         ELSE {}) :
          Apply_verifyMerkleProof(leafHash, result[1].root)
    \/ \E root \in (IF fn = "verifyMerkleProof" THEN OtherHashes(result[1].tree) ELSE {}) :
          Apply_verifyMerkleProof(args.hashes[args.index + 1], root)

SpecCrypto == InitCrypto /\ [][NextCrypto]_vars

----------------------------------------------------------------------------
(* The verify command of the CLI: cli/src/index.ts.  It reads a log file   *)
(* anybody may have written.                                               *)

\* A log as close() writes it: a chain of n entries, its Merkle root, and
\* the signature of the keys k when both are given.
ClosedLog(n, k) ==
    LET sess == [session_id |-> 1, closed_at |-> 1]
        es == ChainOf(n)
        root == buildMerkleTree(EntryHashes(es)).root
    IN  [session |-> sess, entries |-> es, merkle_root |-> root,
         org_signature |-> IF k[1] # 0 /\ k[2] # 0
                           THEN signAuditLog(sess, es, root, k[1], k[2], 1)
                           ELSE NoSignature]

\* What has been changed in the file since: one of Changes, the payload of
\* every entry, the entry hash of the last entry emptied, the Merkle root
\* emptied.
FileChanges == Changes \cup {"payloads", "entry_hash", "no_merkle_root"}

ChangedFile(log, c) ==
    CASE c = "payloads"       ->
            [log EXCEPT !.entries = [i \in 1..Len(@) |-> [@[i] EXCEPT !.entry = E1]]]
      [] c = "entry_hash"     -> [log EXCEPT !.entries[Len(log.entries)].entry_hash = EMPTY]
      [] c = "no_merkle_root" -> [log EXCEPT !.merkle_root = EMPTY]
      [] OTHER                -> Changed(log, c)

LogFiles ==
    {ChangedFile(ClosedLog(n, k), c) :
        <<n, k, c>> \in {x \in (0..MaxChain) \X {<<0, 0>>, <<1, 1>>, <<1, 2>>} \X FileChanges :
                            x[1] = 0 => x[3] \notin {"entry_removed", "payload", "entry_hash"}}}

\* verify(logPath) for a file that exists and parses: what it prints for
\* each of the three checks, and how it ends.  The Merkle check runs
\* buildMerkleTree, which does not return for some lists; then nothing more
\* is printed and the process does not exit.
verifyCommand(log) ==
    LET chainResult == verifyChain(log.entries)
        hashes == EntryHashes(log.entries)
        loops == log.merkle_root # EMPTY /\ hashes # <<>> /\ PaddingLoops(hashes)
        merkle == IF log.merkle_root = EMPTY THEN "absent"
                  ELSE IF loops THEN "does not return"
                  ELSE IF buildMerkleTree(hashes).root = log.merkle_root THEN "verified"
                  ELSE "mismatch"
        signature == IF loops THEN "not reached"
                     ELSE IF ~log.org_signature.present THEN "absent"
                     ELSE IF verifyAuditLogSignature(log.session, log.entries,
                                                     log.merkle_root, log.org_signature)
                          THEN "verified"
                     ELSE "FAILED"
        allValid == /\ chainResult.valid
                    /\ merkle \in {"absent", "verified"}
                    /\ signature \in {"absent", "verified"}
    IN  [chain |-> IF chainResult.valid THEN "verified" ELSE "FAILED",
         chain_errors |-> IF chainResult.valid THEN <<>> ELSE chainResult.errors,
         merkle |-> merkle,
         signature |-> signature,
         exited |-> ~loops,
         status |-> IF loops THEN -1 ELSE IF allValid THEN 0 ELSE 1]

InitCli ==
    /\ Constructed
    /\ NoLedger
    /\ kind = "InMemoryStorage"
    /\ result = NoResult
    /\ fn = "verify"
    /\ args \in LogFiles

Apply_verifyCommand ==
    /\ fn = "verify"
    /\ result = NoResult
    /\ result' = <<verifyCommand(args)>>
    /\ fn' = IF result'[1].exited THEN "exited" ELSE "running"
    /\ UNCHANGED <<storageVars, ledgerVars, docVars, args>>

NextCli == Apply_verifyCommand

SpecCli == InitCli /\ [][NextCli]_vars

----------------------------------------------------------------------------
(* Ledger: core/src/index.ts.  The Ledger owns its backend and is the only *)
(* caller of it; its caller issues one call at a time and awaits it,       *)
(* except that a call made before start has settled is refused at once.    *)

\* The entry snapshot() builds; 2 stands for the type 'state_snapshot'.
StateSnapshot(id) == << <<"type", 2>>, <<"entry_id", id>> >>

\* The operations that build an entry and hand it to Ledger.append.
LogOps == {"logModelCall", "logToolInvocation", "logDecision", "logApproval",
           "snapshot", "storeContent"}

\* The operations that hand a read to the backend.
ReadOps == {"verify", "getEntries", "count", "getSession"}

PublicOps == LogOps \cup ReadOps \cup {"close", "export"}

\* The entry the operation builds and hands to Ledger.append; the optional
\* fields its caller left out are undefined.
EntryOf(op) == IF op = "snapshot" THEN StateSnapshot(4) ELSE E1u

\* Configurations: neither periodic snapshots nor signing keys, a snapshot
\* every entry, or a snapshot every second entry and a matching pair of keys.
LedgerConfigs == {[snapshotInterval |-> 0, signingKeys |-> <<0, 0>>],
                  [snapshotInterval |-> 1, signingKeys |-> <<0, 0>>],
                  [snapshotInterval |-> 2, signingKeys |-> <<1, 1>>]}

\* Variant: the check of the flag is left out.
ensureInitialized_skipped == TRUE

\* ensureInitialized returns; it throws where this is false.
ensureInitialized == initialized

\* this.storage.<method>(...): the method of whichever backend it is.
storage_initialize(s) ==
    \/ InMemoryStorage_initialize(s)
    \/ FileSystemStorage_initialize(s)
    \/ S3Storage_initialize(s)

storage_append(entry) ==
    \/ InMemoryStorage_append(entry)
    \/ FileSystemStorage_append(entry)
    \/ S3Storage_append(entry)

storage_close(privateKey, publicKey) ==
    \/ InMemoryStorage_close(privateKey, publicKey)
    \/ FileSystemStorage_close(privateKey, publicKey)
    \/ S3Storage_close(privateKey, publicKey)

storage_export ==
    \/ InMemoryStorage_export
    \/ FileSystemStorage_export
    \/ S3Storage_export

\* generateId(): an id no session had before.
generateId == session.session_id + 1

\* start, up to its await of storage.initialize.
Ledger_start ==
    /\ ledgerPc = "idle"
    /\ generateId \in Sessions
    /\ storage_initialize(SessionEnvelope(generateId))
    /\ ledgerPc' = "start"
    /\ ledgerFrame' = [NoLedgerFrame EXCEPT !.op = "start"]
    /\ UNCHANGED <<initialized, Ledger_entryCount, snapshotInterval, signingKeys,
                   ledgerLastCall>>

\* storage.initialize has returned: the flag is set, the counter is reset.
Ledger_start_return ==
    /\ ledgerPc = "start"
    /\ pc = "idle"
    /\ lastCall.op = "initialize" /\ lastCall.status = "ok"
    /\ initialized' = TRUE
    /\ Ledger_entryCount' = 0
    /\ ledgerPc' = "idle"
    /\ ledgerFrame' = NoLedgerFrame
    /\ ledgerLastCall' = LedgerReturns("start", NoEntry)
    /\ UNCHANGED <<storageVars, docVars, callVars, snapshotInterval, signingKeys>>

\* storage.initialize has thrown: start throws what it threw.
Ledger_start_throws ==
    /\ ledgerPc = "start"
    /\ pc = "idle"
    /\ lastCall.op = "initialize" /\ lastCall.status # "ok"
    /\ ledgerPc' = "idle"
    /\ ledgerFrame' = NoLedgerFrame
    /\ ledgerLastCall' = LedgerThrows("start", lastCall.status)
    /\ UNCHANGED <<storageVars, docVars, callVars, initialized, Ledger_entryCount,
                   snapshotInterval, signingKeys>>

\* An operation other than start where ensureInitialized throws.
Ledger_ensureInitialized_throws(op) ==
    /\ ~ensureInitialized
    /\ ledgerLastCall' = LedgerThrows(op, "LedgerNotInitializedError")
    /\ UNCHANGED <<storageVars, docVars, callVars, initialized, Ledger_entryCount,
                   snapshotInterval, signingKeys, ledgerPc, ledgerFrame>>

\* logModelCall, logToolInvocation, logDecision, logApproval, snapshot and
\* storeContent, up to the await of storage.append in Ledger.append.
Ledger_log(op) ==
    /\ ledgerPc = "idle"
    /\ ensureInitialized
    /\ storage_append(EntryOf(op))
    /\ ledgerPc' = "append"
    /\ ledgerFrame' = [NoLedgerFrame EXCEPT !.op = "append"]
    /\ UNCHANGED <<initialized, Ledger_entryCount, snapshotInterval, signingKeys,
                   ledgerLastCall>>

\* The entry the operation of the caller returns: the one its own append got.
OwnEntry == IF ledgerFrame.chained = NoEntry THEN returned ELSE ledgerFrame.chained

PeriodicDue(n) == snapshotInterval # 0 /\ n % snapshotInterval = 0

\* storage.append has returned, the counter is raised and a periodic
\* snapshot is due: snapshot() hands its entry to Ledger.append.
Ledger_append_snapshot ==
    /\ ledgerPc = "append"
    /\ pc = "idle"
    /\ PeriodicDue(Ledger_entryCount + 1)
    /\ ensureInitialized
    /\ Ledger_entryCount' = Ledger_entryCount + 1
    /\ storage_append(StateSnapshot(3))
    /\ ledgerFrame' = [ledgerFrame EXCEPT !.chained = OwnEntry, !.snapshots = @ + 1]
    /\ UNCHANGED <<initialized, snapshotInterval, signingKeys, ledgerPc, ledgerLastCall>>

\* storage.append has returned, the counter is raised and no snapshot is
\* due: Ledger.append returns, and so does every call that awaits it.
Ledger_append_return ==
    /\ ledgerPc = "append"
    /\ pc = "idle"
    /\ ~PeriodicDue(Ledger_entryCount + 1)
    /\ Ledger_entryCount' = Ledger_entryCount + 1
    /\ ledgerPc' = "idle"
    /\ ledgerFrame' = NoLedgerFrame
    /\ ledgerLastCall' = LedgerReturns(ledgerFrame.op, OwnEntry)
    /\ UNCHANGED <<storageVars, docVars, callVars, initialized, snapshotInterval,
                   signingKeys>>

\* verify, getEntries, count and getSession.
Ledger_read(op) ==
    /\ ledgerPc = "idle"
    /\ ensureInitialized
    /\ ledgerLastCall' = LedgerReturns(op, NoEntry)
    /\ UNCHANGED <<storageVars, docVars, callVars, initialized, Ledger_entryCount,
                   snapshotInterval, signingKeys, ledgerPc, ledgerFrame>>

\* close, up to the await of storage.close.
Ledger_close ==
    /\ ledgerPc = "idle"
    /\ ensureInitialized
    /\ storage_close(signingKeys[1], signingKeys[2])
    /\ ledgerPc' = "close"
    /\ ledgerFrame' = [NoLedgerFrame EXCEPT !.op = "close"]
    /\ UNCHANGED <<initialized, Ledger_entryCount, snapshotInterval, signingKeys,
                   ledgerLastCall>>

\* export, up to the await of storage.export.
Ledger_export ==
    /\ ledgerPc = "idle"
    /\ ensureInitialized
    /\ storage_export
    /\ ledgerPc' = "close"
    /\ ledgerFrame' = [NoLedgerFrame EXCEPT !.op = "export"]
    /\ UNCHANGED <<initialized, Ledger_entryCount, snapshotInterval, signingKeys,
                   ledgerLastCall>>

\* storage.close or storage.export has returned.
Ledger_close_return ==
    /\ ledgerPc = "close"
    /\ pc = "idle"
    /\ ledgerPc' = "idle"
    /\ ledgerFrame' = NoLedgerFrame
    /\ ledgerLastCall' = LedgerReturns(ledgerFrame.op, NoEntry)
    /\ UNCHANGED <<storageVars, docVars, callVars, initialized, Ledger_entryCount,
                   snapshotInterval, signingKeys>>

InitLedger ==
    /\ Constructed
    /\ Ledger_constructor
    /\ \E config \in LedgerConfigs :
          /\ snapshotInterval = config.snapshotInterval
          /\ signingKeys = config.signingKeys
    /\ fn = "none"
    /\ args = NoArgs
    /\ result = NoResult

\* The calls of the caller of the Ledger, and the steps of the backend that
\* follow by themselves; the object store may refuse the PUT of session.json.
NextLedger ==
    \/ Ledger_start
    \/ Ledger_start_return
    \/ Ledger_start_throws
    \/ \E op \in PublicOps : Ledger_ensureInitialized_throws(op)
    \/ \E op \in LogOps : Ledger_log(op)
    \/ Ledger_append_snapshot
    \/ Ledger_append_return
    \/ \E op \in ReadOps : Ledger_read(op)
    \/ Ledger_close
    \/ Ledger_export
    \/ Ledger_close_return
    \/ Tick
    \/ S3Storage_initialize_return
    \/ S3Storage_initialize_throws
    \/ \E t \in timers : S3Storage_timer_flush(t)
    \/ \E req \in inflight : S3Storage_timer_flush_done(req)
    \/ S3Storage_append_return
    \/ S3Storage_close_flushed
    \/ S3Storage_close_return

SpecLedger == InitLedger /\ [][NextLedger]_vars

----------------------------------------------------------------------------
(* Properties *)

\* The chain invariants of a list of entries, written out.
ChainInvariants(es) ==
    \A i \in 1..Len(es) :
        /\ es[i].sequence = i - 1
        /\ es[i].previous_hash = (IF i = 1 THEN EMPTY ELSE es[i - 1].entry_hash)
        /\ es[i].entry_hash = hashObject(i - 1, es[i].entry, es[i].previous_hash)

\* C1: after any serialized appends on an initialized backend the chain that
\* getAll returns has sequence i at position i, an empty previous_hash
\* first, every previous_hash equal to the entry_hash before it, and every
\* entry_hash equal to hashObject of the entry's sequence, payload and
\* previous_hash.
C1_ChainInvariants == Initialized => ChainInvariants(getAll)

C1_Witness == Initialized /\ pc = "idle" /\ lastCall = Returns("append") /\ Len(getAll) >= 2

\* C2: after any appends to an initialized backend verify() is valid with
\* no errors, and verifyChain over the entries of every log close() has
\* returned is valid.
C2_ChainValidity ==
    /\ Initialized => (verifyStorage.valid /\ verifyStorage.errors = <<>>)
    /\ \A i \in 1..Len(logs) : verifyChain(heap[logs[i].entries]).valid

C2_Witness ==
    /\ pc = "idle" /\ lastCall.op = "close" /\ lastCall.status = "ok"
    /\ Len(heap[Last(logs).entries]) >= 2

\* C3: in a serialized stream of appends since the last initialize, the
\* entry the n-th append returns has sequence n-1 and is the entry stored at
\* position n-1 of the chain (as JSON values: the file keeps no undefined
\* field), so the sequence numbers have no gap and no repeat.
C3_AppendSequence ==
    (pc = "idle" /\ lastCall = Returns("append")) =>
        /\ returned.sequence = appendCalls - 1
        /\ Len(getAll) = appendCalls
        /\ ChainedJSON(getAll[appendCalls]) = ChainedJSON(returned)

C3_Witness == pc = "idle" /\ lastCall = Returns("append") /\ appendCalls >= 2

\* The payload of entry i of the document, and nothing else, differs from
\* the document as close() produced it.
PayloadChangedAt(i) ==
    /\ doc # NoDocument
    /\ Len(doc.entries) = Len(orig.entries)
    /\ i \in 1..Len(doc.entries)
    /\ sortedReplacer(doc.entries[i].entry) # sortedReplacer(orig.entries[i].entry)
    /\ doc.entries = [orig.entries EXCEPT ![i].entry = doc.entries[i].entry]

\* C4: when only the payload of entry i of a valid chain is changed,
\* verifyChain is invalid with exactly one error, the entry-hash mismatch at
\* sequence i, and the links of the entries after i still verify.
C4_TamperLocalization ==
    \A i \in 1..MaxCalls :
        PayloadChangedAt(i) =>
            /\ verifyChain(doc.entries).valid = FALSE
            /\ verifyChain(doc.entries).errors = << <<"Entry hash mismatch", i - 1>> >>
            /\ \A j \in (i + 1)..Len(doc.entries) : LinkAt(doc.entries, j).valid

C4_Witness == \E i \in 1..MaxCalls : PayloadChangedAt(i) /\ i < Len(doc.entries)

\* What a document says: its entries as JSON values (the order of the keys
\* of an object is not part of the value) and its merkle_root.
SameEntries(a, b) ==
    /\ Len(a) = Len(b)
    /\ \A i \in 1..Len(a) : [a[i] EXCEPT !.entry = sortedReplacer(@)]
                            = [b[i] EXCEPT !.entry = sortedReplacer(@)]

DocumentModified ==
    /\ doc # NoDocument
    /\ ~(SameEntries(doc.entries, orig.entries) /\ doc.merkle_root = orig.merkle_root)

\* C5: a log closed with a signing key pair and then modified in its
\* entries or its merkle_root fails the chain check, the Merkle-root
\* comparison or the signature check, also when the modifier has recomputed
\* every entry hash and the root.
C5_TamperEvidence ==
    DocumentModified => ~(ChainCheck(doc) /\ MerkleCheck(doc) /\ SignatureCheck(doc))

C5_Witness == DocumentModified /\ ChainCheck(doc) /\ MerkleCheck(doc) /\ ~SignatureCheck(doc)

\* Entry e of the session is in the body of a batch object of the store.
InBatchObject(e) ==
    \E o \in objects :
        /\ o.key[1] = session.session_id
        /\ o.key[2] = "entries"
        /\ \E j \in 1..Len(o.body) : o.body[j] = ChainedJSON(e)

\* C6: when close() of S3Storage has returned, every entry appended in the
\* session has been written to the object store in some batch object.
C6_CloseLosesNothing ==
    (kind = "S3Storage" /\ pc = "idle" /\ lastCall.op = "close" /\ lastCall.status = "ok") =>
        \A i \in 1..Len(heap[entries]) : InBatchObject(heap[entries][i])

\* C7: an AuditLog close() has returned is not changed by any later step:
\* the object and the entries array it points to stay as returned.
C7_ReturnedLogImmutable ==
    [][\A i \in 1..Len(logs) :
          /\ logs'[i] = logs[i]
          /\ heap'[logs[i].entries] = heap[logs[i].entries]]_vars

\* C8: the finalized log of a session is created by close() only: no
\* finalization (closed_at stamped, log built, artifact written) is ever
\* performed by export.
C8_FinalizedOnlyByClose ==
    \A i \in 1..Len(finalizations) : finalizations[i].by = "close"

C10_InitializeResets ==
    /\ (pc = "idle" /\ lastCall.op = "initialize") =>
          (count = 0 /\ getAll = <<>> /\ getSession = lastCall.arg)
    /\ (pc = "idle" /\ lastCall = Returns("append") /\ appendCalls = 1) =>
          (returned.sequence = 0 /\ returned.previous_hash = EMPTY)

C10_Witness ==
    pc = "idle" /\ lastCall.op = "initialize" /\ lastCall.countBefore > 0 /\ calls < MaxCalls

\* C18: verifyChainLink(current, previous) reports the first failure only, in
\* the order sequence, previous hash, entry hash: a sequence mismatch when
\* current.sequence differs from previous.sequence + 1 (0 without previous);
\* else a previous-hash mismatch when current.previous_hash differs from
\* previous.entry_hash ('' without previous); else an entry-hash mismatch
\* when the hash recomputed from the stored fields differs from
\* current.entry_hash; and it is valid, with no error, exactly when none of
\* the three holds.
LinkSequenceBad ==
    args.current.sequence # (IF args.hasPrev THEN args.previous.sequence + 1 ELSE 0)
LinkPreviousBad ==
    args.current.previous_hash # (IF args.hasPrev THEN args.previous.entry_hash ELSE EMPTY)
LinkHashBad ==
    args.current.entry_hash #
        hashObject(args.current.sequence, args.current.entry, args.current.previous_hash)

C18_LinkCheckOrder ==
    (fn = "verifyChainLink" /\ result # NoResult) =>
        LET r == result[1]
            expected == IF args.hasPrev THEN args.previous.sequence + 1 ELSE 0
        IN  /\ LinkSequenceBad =>
                  r = [valid |-> FALSE,
                       error |-> <<"Sequence mismatch", expected, args.current.sequence>>]
            /\ (~LinkSequenceBad /\ LinkPreviousBad) =>
                  r = [valid |-> FALSE,
                       error |-> <<"Previous hash mismatch", args.current.sequence>>]
            /\ (~LinkSequenceBad /\ ~LinkPreviousBad /\ LinkHashBad) =>
                  r = [valid |-> FALSE,
                       error |-> <<"Entry hash mismatch", args.current.sequence>>]
            /\ (~LinkSequenceBad /\ ~LinkPreviousBad /\ ~LinkHashBad) =>
                  r = [valid |-> TRUE, error |-> <<>>]

\* An entry that fails all three checks has been verified against a previous one.
C18_Witness ==
    /\ fn = "verifyChainLink" /\ result # NoResult /\ args.hasPrev
    /\ LinkSequenceBad /\ LinkPreviousBad /\ LinkHashBad
    /\ result[1].error[1] = "Sequence mismatch"

\* C19: verifyChain scans the whole list: errors holds exactly one message for
\* each index whose link to its predecessor (null for the first) is invalid,
\* in index order; valid is true exactly when errors is empty, and the empty
\* list is valid.
InvalidLinks(es) ==
    {i \in 1..Len(es) :
        ~verifyChainLink(es[i], i > 1, IF i > 1 THEN es[i - 1] ELSE NoEntry).valid}

\* The j-th smallest element of a set of indices.
NthOf(S, j) == CHOOSE i \in S : Cardinality({k \in S : k <= i}) = j

C19_CompleteErrorList ==
    (fn = "verifyChain" /\ result # NoResult) =>
        LET r == result[1]
            bad == InvalidLinks(args)
        IN  /\ Len(r.errors) = Cardinality(bad)
            /\ \A j \in 1..Len(r.errors) :
                  LET i == NthOf(bad, j)
                  IN  r.errors[j] =
                        verifyChainLink(args[i], i > 1,
                                        IF i > 1 THEN args[i - 1] ELSE NoEntry).error
            /\ r.valid <=> (r.errors = <<>>)
            /\ r.verified_count = Len(args)
            /\ (args = <<>>) => r.valid

\* A list whose first and last links are invalid and whose middle one is not.
C19_Witness ==
    /\ fn = "verifyChain" /\ result # NoResult
    /\ Len(args) = 3
    /\ InvalidLinks(args) = {1, 3}
    /\ Len(result[1].errors) = 2

\* C20: for a non-empty list of leaf hashes and an index k of it, the proof
\* getMerkleProof gives for k in the tree of buildMerkleTree verifies leaf[k]
\* against the root, and verifies no other value in place of leaf[k] and
\* against no other value in place of the root.
C20_MerkleRoundTrip ==
    (fn = "done" /\ Len(result) = 3) =>
        LET r == result[3]
        IN  r.valid <=> (r.leafHash = args.hashes[args.index + 1] /\ r.root = result[1].root)

\* The proof of the last leaf of a five-leaf list, padded to eight, verifies.
C20_Witness ==
    /\ fn = "done"
    /\ Len(args.hashes) = 5 /\ args.index = 4
    /\ Len(result[2]) = 3
    /\ result[3].valid

\* C17: for every pair of integers (start, end), getRange(start, end) returns
\* exactly the stored entries with max(start, 0) <= sequence < min(end, count()),
\* in ascending sequence order.
C17_RangeClamped ==
    (pc = "idle" /\ Initialized) =>
        \A start, end \in RangeArgs :
            getRange(start, end) =
                SelectSeq(getAll, LAMBDA e : /\ Max(start, 0) <= e.sequence
                                             /\ e.sequence < Min(end, count))

\* C12: after close() has returned on S3Storage, no interval timer created by
\* the instance is still active, however many times initialize was called.
C12_NoTimerAfterClose ==
    (kind = "S3Storage" /\ pc = "idle" /\ lastCall.op = "close") => timers = {}

\* C13: when close() of S3Storage returns, no batch write started earlier by
\* the interval timer or by an append is still in flight.
BatchRequests == {req \in inflight : req.key[2] = "entries"}

C13_FlushesJoined ==
    (kind = "S3Storage" /\ pc = "idle" /\ lastCall.op = "close") => BatchRequests = {}

\* The entry lines of the session file of FileSystemStorage.
EntryLines == SelectSeq(files[logPath], LAMBDA l : l.type = "entry")

\* The batch objects of the session in the object store, and the number of
\* entries they hold.
BatchObjects == {o \in objects : o.key[1] = session.session_id /\ o.key[2] = "entries"}

RECURSIVE EntriesIn(_)
EntriesIn(os) ==
    IF os = {} THEN 0
    ELSE LET o == CHOOSE x \in os : TRUE IN Len(o.body) + EntriesIn(os \ {o})

\* C16: count() equals the number of entries persisted so far (entry lines of
\* the session file for FileSystemStorage, entries held by written batch
\* objects for S3Storage, the length of the list for InMemoryStorage) and
\* equals getAll().length.
C16_CountIsPersisted ==
    (pc = "idle" /\ Initialized) =>
        /\ count = Len(getAll)
        /\ kind = "FileSystemStorage" => count = Len(EntryLines)
        /\ kind = "S3Storage" => count = EntriesIn(BatchObjects)
        /\ kind = "InMemoryStorage" => count = Len(heap[entries])

\* C16 (amended): count() equals getAll().length, the number of entries of the
\* chain the backend holds: the entry lines of the session file for
\* FileSystemStorage, the length of the in-memory list for InMemoryStorage
\* and S3Storage, whose list includes the entries that are buffered and not
\* yet written to a batch object.
C16_CountIsChainLength ==
    (pc = "idle" /\ Initialized) =>
        /\ count = Len(getAll)
        /\ kind = "FileSystemStorage" => count = Len(EntryLines)
        /\ kind # "FileSystemStorage" => count = Len(heap[entries])
        /\ kind = "S3Storage" => count >= Len(pendingWrites)

\* S3Storage counts an entry that is buffered and in no batch object.
C16_Witness ==
    /\ kind = "S3Storage" /\ pc = "idle" /\ lastCall = Returns("append")
    /\ count = 1 /\ Len(pendingWrites) = 1 /\ BatchObjects = {}

\* The entry hash the next append would link to.
LastHashOf(es) == IF es = <<>> THEN EMPTY ELSE Last(es).entry_hash

\* C15: append is all-or-nothing: when append reports a failure, count(), the
\* last hash and the stored entries are as they were before the call.
C15_AppendAllOrNothing ==
    (pc = "idle" /\ lastCall.op = "append" /\ lastCall.status # "ok") =>
        /\ count = lastCall.countBefore
        /\ Len(getAll) = lastCall.countBefore
        /\ LastHashOf(getAll) = lastCall.hashBefore

\* C14: when appends are issued without awaiting one another, no two returned
\* entries share a sequence number, no sequence number is skipped once every
\* call has returned, and the stored chain keeps entry[i].sequence = i and the
\* previous-hash linkage.
C14_OverlappingAppends ==
    Initialized =>
        /\ \A i, j \in 1..Len(returnedAll) :
              i # j => returnedAll[i].sequence # returnedAll[j].sequence
        /\ (pc = "idle" /\ overlapped = {}) =>
              {returnedAll[i].sequence : i \in 1..Len(returnedAll)} = 0..(Len(getAll) - 1)
        /\ ChainInvariants(getAll)

\* Every append has returned, and one that was issued while an earlier one
\* was suspended in its flush returned before it.
C14_Witness ==
    /\ kind = "S3Storage" /\ Initialized /\ pc = "idle" /\ overlapped = {}
    /\ \E i, j \in 1..Len(returnedAll) :
          i < j /\ returnedAll[i].sequence > returnedAll[j].sequence

\* A step of start itself: its call, or its return or throw.
StartStep ==
    \/ ledgerPc = "idle" /\ ledgerPc' = "start"
    \/ ledgerPc = "start" /\ ledgerPc' = "idle"

\* C11: as long as no start() has returned, every step of a public Ledger
\* operation other than start is a refusal with LedgerNotInitializedError
\* that changes neither the Ledger nor its backend, and no entry has been
\* appended and no log produced.
C11_NotInitialized ==
    /\ [](~initialized =>
            /\ Ledger_entryCount = 0
            /\ appendCalls = 0 /\ returnedAll = <<>>
            /\ logs = <<>> /\ finalizations = <<>>)
    /\ [][(~initialized /\ ledgerVars' # ledgerVars /\ ~StartStep) =>
            /\ ledgerLastCall'.op \in PublicOps
            /\ ledgerLastCall'.status = "LedgerNotInitializedError"
            /\ UNCHANGED <<storageVars, docVars, callVars, initialized, Ledger_entryCount,
                           ledgerPc, ledgerFrame>>]_vars

\* start() has failed on a store that refused session.json, and a call made
\* after it was refused.
C11_Witness ==
    /\ ~initialized
    /\ ledgerPc = "idle"
    /\ lastCall.op = "initialize" /\ lastCall.status # "ok"
    /\ ledgerLastCall.op = "logModelCall"
    /\ ledgerLastCall.status = "LedgerNotInitializedError"

\* The caller has applied buildMerkleTree to args.hashes; result[1] is what
\* it returned.
MerkleBuilt == fn \in {"getMerkleProof", "verifyMerkleProof", "done"}

\* C21: buildMerkleTree of the empty list returns the empty string as root
\* and a tree without levels; of a one-element list it returns that element
\* as root, the list itself being the only level.  The entry hash of a
\* one-entry chain is therefore its own Merkle root.
C21_MerkleEmptyAndSingle ==
    (MerkleBuilt /\ Len(args.hashes) <= 1) =>
        IF args.hashes = <<>>
        THEN result[1] = [root |-> EMPTY, tree |-> <<>>]
        ELSE result[1] = [root |-> args.hashes[1], tree |-> <<args.hashes>>]

\* buildMerkleTree has been applied to the entry hash of a one-entry chain.
C21_Witness ==
    /\ MerkleBuilt
    /\ args.hashes = <<ChainOf(1)[1].entry_hash>>
    /\ result[1].root = ChainOf(1)[1].entry_hash

\* The least power of two that is at least n, and its logarithm.
NextPowerOfTwo(n) == CHOOSE p \in {2 ^ k : k \in 0..4} : p >= n /\ p < 2 * n
Log2(p) == CHOOSE k \in 0..4 : 2 ^ k = p

\* C22: for n >= 2 leaf hashes the first level of the tree is the list
\* followed by copies of its last hash up to the next power of two P, there
\* are log2(P) + 1 levels, each half as long as the one below, every node
\* above the leaves is the hash of its two children concatenated, the root
\* is the only node of the last level, and the list extended with copies of
\* its last hash up to P has the same root.
C22_MerklePadding ==
    (MerkleBuilt /\ Len(args.hashes) >= 2) =>
        LET hs == args.hashes
            n == Len(hs)
            P == NextPowerOfTwo(n)
            tree == result[1].tree
        IN  /\ tree[1] = [i \in 1..P |-> IF i <= n THEN hs[i] ELSE hs[n]]
            /\ Len(tree) = Log2(P) + 1
            /\ \A l \in 2..Len(tree) :
                  /\ 2 * Len(tree[l]) = Len(tree[l - 1])
                  /\ \A i \in 1..Len(tree[l]) :
                        tree[l][i] = sha256(<<tree[l - 1][2 * i - 1], tree[l - 1][2 * i]>>)
            /\ result[1].root = tree[Len(tree)][1]
            /\ Len(tree[Len(tree)]) = 1
            /\ buildMerkleTree(tree[1]).root = result[1].root

\* Five leaves padded to eight: four levels, and the root is also the root
\* of the eight-leaf list, which is a different list.
C22_Witness ==
    /\ MerkleBuilt
    /\ Len(args.hashes) = 5
    /\ Len(result[1].tree) = 4
    /\ result[1].tree[1] # args.hashes
    /\ buildMerkleTree(result[1].tree[1]).root = result[1].root
    /\ args.hashes[4] # args.hashes[5]

\* A SHA-256 digest: 64 hexadecimal characters.
IsDigest(h) == Len(h) = 2 /\ h[1] = "sha256"

\* C23: when close() has returned, the entries of the log it returned are
\* the whole chain in sequence order, and its merkle_root is the root
\* buildMerkleTree gives for their entry hashes: a digest if there is an
\* entry, the empty string if there is none.  Any two logs built over the
\* same sequence of entry hashes have the same root.
C23_CloseMerkleRoot ==
    /\ (Initialized /\ pc = "idle" /\ lastCall.op = "close") =>
          LET log == logs[Len(logs)]
              es == heap[log.entries]
              hashes == [i \in 1..Len(es) |-> es[i].entry_hash]
          IN  /\ es = getAll
              /\ Len(es) = appendCalls
              /\ \A i \in 1..Len(es) : es[i].sequence = i - 1
              /\ log.merkle_root = buildMerkleTree(hashes).root
              /\ IF es = <<>> THEN log.merkle_root = EMPTY ELSE IsDigest(log.merkle_root)
              /\ finalizations[Len(finalizations)].entry_hashes = hashes
              /\ finalizations[Len(finalizations)].merkle_root = log.merkle_root
    /\ \A i, j \in 1..Len(finalizations) :
          finalizations[i].entry_hashes = finalizations[j].entry_hashes
              => finalizations[i].merkle_root = finalizations[j].merkle_root

\* close() of FileSystemStorage has returned a log of two entries; its root
\* is the hash of the two entry hashes.
C23_Witness ==
    /\ kind = "FileSystemStorage"
    /\ pc = "idle" /\ lastCall.op = "close"
    /\ Len(heap[logs[Len(logs)].entries]) = 2
    /\ logs[Len(logs)].merkle_root =
          sha256(<<getAll[1].entry_hash, getAll[2].entry_hash>>)

\* C24: verifyAuditLogSignature of a log signed by signAuditLog with the keys
\* of one pair is true for the log as signed and for the log with an entry
\* payload changed; it is false once session_id, merkle_root, the number of
\* entries or closed_at has been changed, and false when org_signature has
\* been taken away.
C24_SignatureCoversSummary ==
    (fn = "checked") =>
        LET c == result[2].change
            valid == result[3].valid
            onePair == args.privateKey = args.publicKey
        IN  /\ c \in {"none", "payload"} => (valid <=> onePair)
            /\ c \in {"session_id", "merkle_root", "entry_added", "entry_removed",
                      "closed_at", "org_signature"} => ~valid

\* A log signed with the keys of one pair got one more entry and fails.
C24_Witness ==
    /\ fn = "checked"
    /\ args.privateKey = args.publicKey
    /\ result[2].change = "entry_added"
    /\ Len(result[2].log.entries) = 2
    /\ ~result[3].valid

\* C25: signing the same data with the same key twice yields the same
\* signature, and verify(data, signature, publicKey) is true exactly when
\* publicKey is the public key of a pair and signature is the string sign
\* returns for that data and the private key of that pair; for any other
\* data, key or signature string it is false.
C25_SignatureRoundTrip ==
    (fn = "verified") =>
        /\ result[1] = result[2]
        /\ result[3].valid <=>
              /\ IsKey(result[3].publicKey)
              /\ result[3].signature = sign(result[3].data, result[3].publicKey)

\* close() has just returned a log to the caller.
CloseReturned == Initialized /\ pc = "idle" /\ lastCall.op = "close" /\ lastCall.status = "ok"

\* C26: the log close(privateKey, publicKey) returns carries org_signature
\* exactly when both keys were given, with the public key given; its
\* integrity.signature_valid is defined exactly when org_signature is
\* present, true for the keys of one pair and false for keys of two pairs;
\* integrity.chain_valid is verifyChain(log.entries).valid; without keys the
\* call returns and the log is unsigned.
C26_CloseSignsWithBothKeys ==
    CloseReturned =>
        LET log == Last(logs)
            keys == lastCall.keys
            signed == log.org_signature.present
        IN  /\ signed <=> (keys[1] # 0 /\ keys[2] # 0)
            /\ signed => log.org_signature.public_key = keys[2]
            /\ (log.integrity.signature_valid # "undefined") <=> signed
            /\ signed => (log.integrity.signature_valid = "true" <=> keys[1] = keys[2])
            /\ log.integrity.chain_valid = verifyChain(LogValue(log).entries).valid
            /\ signed =>
                  (log.integrity.signature_valid = "true") =
                      verifyAuditLogSignature(log.session, LogValue(log).entries,
                                              log.merkle_root, log.org_signature)

\* A close with the two keys of one pair returned a signed log over one
\* entry, and an earlier close without keys an unsigned one.
C26_Witness ==
    /\ CloseReturned
    /\ Len(logs) = 2
    /\ ~logs[1].org_signature.present
    /\ logs[1].integrity.signature_valid = "undefined"
    /\ lastCall.keys = <<1, 1>>
    /\ logs[2].org_signature.present
    /\ logs[2].integrity.signature_valid = "true"
    /\ logs[2].integrity.chain_valid
    /\ Len(LogValue(logs[2]).entries) = 1

\* The chain the common contract prescribes for the payloads appended since
\* the last initialize: entry i is createChainedEntry(payload i, i, hash of
\* entry i - 1).
ContractChain == Rechain(returnedAll, 1, EMPTY)

AsJSON(es) == [i \in 1..Len(es) |-> ChainedJSON(es[i])]

\* C27: whichever of the three backends it is, between the calls of a
\* serialized caller the appends since the last initialize have returned
\* exactly the entries of the contract chain of their payloads, getAll and
\* getRange return the values of that chain and of its slices, count is its
\* length, verify is verifyChain of it, and a close that has just returned
\* carries the Merkle root of its entry hashes.
C27_BackendsAgree ==
    (Initialized /\ pc = "idle") =>
        LET chain == ContractChain
            values == AsJSON(chain)
        IN  /\ returnedAll = chain
            /\ AsJSON(getAll) = values
            /\ \A start, end \in RangeArgs :
                  AsJSON(getRange(start, end)) = slice(values, start, end)
            /\ count = Len(chain)
            /\ verifyStorage = verifyChain(values)
            /\ CloseReturned =>
                  Last(logs).merkle_root = buildMerkleTree(EntryHashes(chain)).root

\* S3Storage holds three entries, two written in a batch and one buffered,
\* the first with an undefined field in its payload.
C27_Witness ==
    /\ kind = "S3Storage"
    /\ pc = "idle"
    /\ count = 3
    /\ Len(pendingWrites) = 1
    /\ returnedAll[1].entry = E1u
    /\ Len(getAll) = 3

\* C28: while a FileSystemStorage session is open, its file is the header
\* line of the session followed by one entry line for each of the count()
\* entries, line i + 1 carrying the entry of sequence i as append returned
\* it, and the cursor is the number of entry lines and the entry hash of the
\* last of them, or '' when there is none.
C28_SessionFile ==
    (kind = "FileSystemStorage" /\ Initialized /\ sessionOpen) =>
        LET file == files[logPath]
        IN  /\ Len(file) = count + 1
            /\ file[1] = HeaderLine(session)
            /\ Len(returnedAll) = count
            /\ \A i \in 1..count :
                  /\ file[i + 1].type = "entry"
                  /\ file[i + 1].data.sequence = i - 1
                  /\ file[i + 1].data = ChainedJSON(returnedAll[i])
            /\ entryCount = Len(file) - 1
            /\ lastHash = IF Len(file) = 1 THEN EMPTY ELSE Last(file).data.entry_hash

\* The file of an open session has two entry lines, and an append has just
\* failed.
C28_Witness ==
    /\ kind = "FileSystemStorage"
    /\ sessionOpen
    /\ lastCall.op = "append"
    /\ lastCall.status = "Error"
    /\ Len(files[logPath]) = 3
    /\ entryCount = 2
    /\ lastHash = files[logPath][3].data.entry_hash

\* C29: a call of a storage backend that fails reaches the caller as a
\* StorageError.
C29_FailuresAreStorageErrors ==
    lastCall.status # "ok" => lastCall.status = "StorageError"

\* C30: the verify command exits, with status 0 when none of the chain
\* check, the Merkle-root comparison and the signature check fails and with
\* status 1 when one of them fails; it reports all three, the chain check
\* with every error of verifyChain as an item.
C30_VerifyExitStatus ==
    (fn \in {"exited", "running"} /\ args \in LogFiles) =>
        LET r == result[1]
            chainFails == ~ChainCheck(args)
            merkleFails == args.merkle_root # EMPTY /\ ~MerkleCheck(args)
            signatureFails == args.org_signature.present /\ ~SignatureCheck(args)
        IN  /\ r.exited
            /\ r.status = (IF chainFails \/ merkleFails \/ signatureFails THEN 1 ELSE 0)
            /\ r.chain = (IF chainFails THEN "FAILED" ELSE "verified")
            /\ r.chain_errors = verifyChain(args.entries).errors
            /\ r.merkle \in {"verified", "mismatch", "absent"}
            /\ r.merkle = "mismatch" <=> merkleFails
            /\ r.signature \in {"verified", "FAILED", "absent"}
            /\ r.signature = "FAILED" <=> signatureFails

\* Two values that differ at most in the order in which object keys were
\* inserted, at any depth.
RECURSIVE SameUpToKeyOrder(_, _)
SameUpToKeyOrder(a, b) ==
    /\ a[1] = b[1]
    /\ CASE a[1] = "num" -> a[2] = b[2]
         [] a[1] = "arr" ->
               /\ Len(a[2]) = Len(b[2])
               /\ \A i \in 1..Len(a[2]) : SameUpToKeyOrder(a[2][i], b[2][i])
         [] a[1] = "obj" ->
               /\ Len(a[2]) = Len(b[2])
               /\ \A i \in 1..Len(a[2]) : \E j \in 1..Len(b[2]) :
                     /\ a[2][i][1] = b[2][j][1]
                     /\ SameUpToKeyOrder(a[2][i][2], b[2][j][2])

\* C31: hashObject gives two values the same hash exactly when they differ at
\* most in the order of insertion of object keys, at any depth and inside
\* arrays; in particular two arrays whose elements differ at some position
\* hash differently.
C31_HashKeyOrder ==
    (fn = "hashed") => ((result[1] = result[2]) <=> SameUpToKeyOrder(args.a, args.b))

\* Two objects that hold an array of objects, the objects in the arrays with
\* their keys in different order, have the same hash.
C31_Witness ==
    /\ fn = "hashed"
    /\ args.a \in HoldingObjects
    /\ args.a # args.b
    /\ args.a[2][1][2][2][1] # args.b[2][1][2][2][1]
    /\ result[1] = result[2]

\* The properties of a payload as JSON carries them: name and value of each
\* property that is not undefined, in no order.
PayloadValue(entry) == {entry[i] : i \in {j \in 1..Len(entry) : entry[j][2] # UNDEFINED}}

\* C32: two calls of createChainedEntry with the same arguments return the
\* same entry, and two calls return the same entry_hash exactly when they
\* were given the same sequence, the same previous hash and payloads of the
\* same JSON value.
C32_ChainDeterminism ==
    (fn = "chained") =>
        /\ result[1] = result[2]
        /\ (result[1].entry_hash = result[3].entry_hash) <=>
              /\ args.a.sequence = args.b.sequence
              /\ args.a.previousHash = args.b.previousHash
              /\ PayloadValue(args.a.entry) = PayloadValue(args.b.entry)

\* Two calls that differ in the sequence only gave different hashes.
C32_Witness ==
    /\ fn = "chained"
    /\ args.a.entry = args.b.entry
    /\ args.a.previousHash = args.b.previousHash
    /\ args.a.previousHash # EMPTY
    /\ args.a.sequence # args.b.sequence
    /\ result[1].entry_hash # result[3].entry_hash
    /\ result[1].entry_hash = result[2].entry_hash

\* A step that changes this.session is the start of an initialize call, and
\* the new value is the envelope the call was given.
SessionStep ==
    session' # session =>
        \/ lastCall'.op = "initialize" /\ lastCall'.arg = session' /\ calls' = calls + 1
        \/ pc' = "initialize" /\ frame'.arg = session' /\ calls' = calls + 1

\* C33: the session of the log close() returns is the session the backend
\* holds with closed_at set, the backend's own session is never stamped, and
\* no step other than an initialize call changes the session the backend
\* holds, which is the envelope that call was given.
C33_SessionFrame ==
    /\ [](CloseReturned =>
            /\ Last(logs).session.closed_at # 0
            /\ Last(logs).session = [session EXCEPT !.closed_at = Last(logs).session.closed_at])
    /\ [](session.closed_at = 0)
    /\ [][SessionStep]_vars

\* A session of two entries was closed: the log carries the caller's
\* metadata and the time of the close.
C33_Witness ==
    /\ CloseReturned
    /\ count = 2
    /\ session = SessionEnvelope(2)
    /\ Last(logs).session.metadata = 2
    /\ Last(logs).session.closed_at = clock

\* C34: a call of a log operation of the Ledger appends at most one
\* automatic snapshot besides the entry of its caller.
C34_AtMostOneSnapshot == ledgerFrame.snapshots <= 1

\* The entry is the one snapshot() builds for a periodic snapshot.
IsPeriodicSnapshot(chained) ==
    JSONstringify(chained.entry) = JSONstringify(StateSnapshot(3))

\* C35: with a snapshot interval k of two or more and one call at a time,
\* between the calls the periodic snapshots are exactly the entries of the
\* chain whose sequence is a positive multiple of k, a log call that has
\* returned has returned the entry of its caller and not the snapshot, and
\* the counter of the Ledger equals count() of the backend.
C35_PeriodicSnapshots ==
    (snapshotInterval >= 2 /\ initialized /\ ledgerPc = "idle") =>
        LET chain == getAll
        IN  /\ Ledger_entryCount = count
            /\ \A i \in 1..Len(chain) :
                  IsPeriodicSnapshot(chain[i])
                      <=> (chain[i].sequence > 0
                           /\ chain[i].sequence % snapshotInterval = 0)
            /\ (ledgerLastCall.op = "append" /\ ledgerLastCall.status = "ok") =>
                  /\ ~IsPeriodicSnapshot(ledgerLastCall.chained)
                  /\ ledgerLastCall.chained.sequence \in 0..(Len(chain) - 1)
                  /\ ChainedJSON(ledgerLastCall.chained)
                        = ChainedJSON(chain[ledgerLastCall.chained.sequence + 1])

\* The key is the key of a batch object.
IsBatchKey(key) == Len(key) = 4

\* The batch requests and batch objects there are.
BatchWrites == {w \in {[key |-> r.key, body |-> r.body] : r \in inflight} \cup objects :
                   IsBatchKey(w.key)}

\* The number of entries of the chain that have been handed to a flush.
Flushed == Len(heap[entries]) - Len(pendingWrites)

\* The step hands no batch to the object store, or it hands over exactly the
\* entries appended since the last batch, under the key of their range.
BatchStep ==
    kind = "S3Storage" =>
        LET chain == heap'[entries']
            run == SubSeq(chain, Flushed + 1, Len(chain))
            issued == {r \in inflight' \ inflight : IsBatchKey(r.key)}
        IN  \/ /\ flushInterval' # flushInterval
               /\ chain = <<>> /\ pendingWrites' = <<>>
               /\ issued = {}
            \/ /\ flushInterval' = flushInterval
               /\ Flushed' = Flushed
               /\ issued = {}
            \/ /\ flushInterval' = flushInterval
               /\ Flushed' > Flushed
               /\ pendingWrites' = <<>>
               /\ \E awaited \in BOOLEAN :
                     LET req == PutRequest(<<session.session_id, "entries", Flushed,
                                             Len(chain) - 1>>, BatchBody(run), awaited)
                     IN  req \in inflight' /\ issued \subseteq {req}

\* C36: every batch S3Storage writes is a non-empty run of consecutive
\* entries in the order of their sequence under the key of its first and
\* last sequence, the buffer is the tail of the chain that no batch holds,
\* and each flush of a session, whichever of the timer, the size threshold
\* and close runs it, writes exactly the entries appended since the batch
\* before it: no entry is in two batches, and the ranges are disjoint and
\* ascend in the order the batches are written.
C36_BatchRanges ==
    /\ [](kind = "S3Storage" =>
            /\ \A w \in BatchWrites :
                  /\ w.body # <<>>
                  /\ \A i \in 1..Len(w.body) : w.body[i].sequence = w.key[3] + i - 1
                  /\ w.key[4] = w.key[3] + Len(w.body) - 1
            /\ pendingWrites = SubSeq(heap[entries], Flushed + 1, Len(heap[entries])))
    /\ [][BatchStep]_vars

\* The timer has written the batch 0-0 of the session and an append that
\* filled the buffer has written the batch 1-2.
C36_Witness ==
    /\ kind = "S3Storage"
    /\ pc = "idle"
    /\ \E a, b \in objects :
          /\ a.key = <<session.session_id, "entries", 0, 0>>
          /\ b.key = <<session.session_id, "entries", 1, 2>>
          /\ a.body = BatchBody(SubSeq(heap[entries], 1, 1))
          /\ b.body = BatchBody(SubSeq(heap[entries], 2, 3))

\* What a step of S3Storage does with the buffer: an append that fills it
\* hands the whole of it to a flush and waits for the PUT, any other append
\* returns with its entry buffered; an append that waited returns when the
\* batch that ends with its entry is stored; and a step that finds the
\* buffer empty and appends nothing issues no batch.
FlushStep ==
    kind = "S3Storage" =>
        LET chain == heap'[entries']
            appended == entries' = entries /\ Len(chain) = Len(heap[entries]) + 1
            issued == {r \in inflight' \ inflight : IsBatchKey(r.key)}
        IN  /\ (appended /\ pc = "idle") =>
                  IF Len(pendingWrites) + 1 >= BatchSize
                  THEN /\ pc' = "append"
                       /\ pendingWrites' = <<>>
                       /\ PutRequest(BatchKey(session, Append(pendingWrites, Last(chain))),
                                     BatchBody(Append(pendingWrites, Last(chain))), TRUE)
                              \in inflight'
                  ELSE /\ pc' = "idle"
                       /\ lastCall' = Returns("append")
                       /\ pendingWrites' = Append(pendingWrites, Last(chain))
                       /\ issued = {}
            /\ (pc = "append" /\ pc' = "idle" /\ lastCall'.status = "ok") =>
                  LET last == returned'.sequence
                      batch == SubSeq(chain, last - BatchSize + 2, last + 1)
                  IN  /\ last >= BatchSize - 1
                      /\ [key |-> BatchKey(session, batch), body |-> BatchBody(batch)]
                            \in objects'
            /\ (pendingWrites = <<>> /\ ~appended) => issued = {}

\* C37: on S3Storage the append that brings the buffer to the batch size
\* hands the whole buffer to a flush and returns only when its batch is
\* stored, fewer entries than the batch size are buffered at any time, and
\* a flush that finds the buffer empty writes no object.
C37_ThresholdFlush ==
    /\ [](kind = "S3Storage" =>
            /\ Len(pendingWrites) < BatchSize
            /\ \A w \in BatchWrites : w.body # <<>>)
    /\ [][FlushStep]_vars

\* The append that filled the buffer has returned: its batch is stored and
\* the buffer is empty.
C37_Witness ==
    /\ kind = "S3Storage"
    /\ pc = "idle"
    /\ lastCall.op = "append" /\ lastCall.status = "ok"
    /\ pendingWrites = <<>>
    /\ returned.sequence = Len(heap[entries]) - 1
    /\ \E o \in objects :
          o.key = <<session.session_id, "entries", returned.sequence - BatchSize + 1,
                    returned.sequence>>

\* What the backend stores and what its reads return; getRange and verify
\* return a function of what getAll returns.
BackendView ==
    <<session, entries, heap[entries], pendingWrites, inflight, objects, logPath,
      entryCount, lastHash, files, getAll, count, getSession>>

\* A step of a read, or of the caller on a list a read returned, leaves
\* what the backend stores and returns as it was, and the list getAll or
\* getRange returns is a list of its own that holds what the read found.
ReadStep ==
    (args' # args) =>
        /\ BackendView' = BackendView
        /\ (fn' \in {"getAll", "getRange"}) =>
              /\ result'[2] # entries'
              /\ result'[2] \notin DOMAIN heap
        /\ (fn' = "getAll") => heap'[result'[2]] = getAll

\* C38: getRange, getAll, count, verify and getSession leave the chain, the
\* cursor, the buffer and the session of the backend unchanged, and adding
\* to or removing from the list getAll returned changes neither what the
\* backend stores nor what it returns later.
C38_ReadOnly == [][ReadStep]_vars

\* The caller has added an entry to the list getAll returned for a chain
\* that is not empty.
C38_Witness ==
    /\ fn = "push"
    /\ count >= 1
    /\ Len(heap[result[2]]) = count + 1
    /\ SubSeq(heap[result[2]], 1, count) = getAll

\* What a read returns is what the chain is at that point, and the chain a
\* later read finds begins with the chain an earlier read found, unless an
\* initialize has emptied it in between.
ConcurrentReadStep ==
    LET chain == getAll
    IN  /\ (args' # args /\ fn' = "getAll") =>
              /\ heap'[result'[2]] = chain
              /\ Len(heap'[result'[2]]) = count
        /\ (args' # args /\ fn' = "getRange") =>
              LET range == heap'[result'[2]]
              IN  \E k \in 0..(Len(chain) - Len(range)) :
                      range = SubSeq(chain, k + 1, k + Len(range))
        /\ (args' # args /\ fn' = "count") => result'[2] = Len(chain)
        /\ (args' # args /\ fn' = "verify") => (result'[2] /\ result'[3] = <<>>)
        /\ Initialized =>
              IF Len(getAll') >= Len(chain)
              THEN SubSeq(getAll', 1, Len(chain)) = chain
              ELSE getAll' = <<>> /\ args' = args /\ appendCalls' = 0

\* C39: at every point where a read can run, also while an append is
\* suspended in its flush or a PUT of the timer is unanswered, the chain
\* the reads see has at position i an entry with sequence i, the previous
\* hash and the entry hash createChainedEntry gave it, count() is the
\* length of what getAll returns, and what a read returns is that chain,
\* which later reads find extended and never changed.
C39_ConsistentReads ==
    /\ [](Initialized =>
            /\ count = Len(getAll)
            /\ ChainInvariants(getAll)
            /\ \A i \in 1..Len(getAll) : IsDigest(getAll[i].entry_hash))
    /\ [][ConcurrentReadStep]_vars

\* getAll has returned while an append of S3Storage is suspended in its
\* flush: the list ends with the entry of that append, whole.
C39_Witness ==
    /\ kind = "S3Storage"
    /\ pc = "append"
    /\ fn = "getAll"
    /\ heap[result[2]] = getAll
    /\ Last(getAll) = frame.chained
    /\ frame.chained.entry_hash
          = hashObject(count - 1, frame.chained.entry, frame.chained.previous_hash)

====
